---- MODULE Spec2Model ----
(***************************************************************************)
(* Model of the vector-space construction and query-time ranking pipeline  *)
(* of the game recommender (offline steps 1-7, online steps 10-15 and the  *)
(* serving-side VectorBasedRecommender).                                   *)
(*                                                                         *)
(* Real numbers are fixed-point integers: a score or a vector component x  *)
(* stands for x / Scale.  Python's 0-based positions are 1-based here.     *)
(***************************************************************************)
EXTENDS Integers, Sequences, FiniteSets, TLC

\* ------------------------------------------------------------------------
\* Bounds of the model
\* ------------------------------------------------------------------------
MaxCand == 3
MaxK == 4
MaxScored == 2
MaxTags == 2

MaxGames == 2

MaxReviews == 3

MaxQueryTags == 2

MaxSeeds == 2
MaxConstraints == 2
MaxFiltered == 2
MaxMissing == 2
MaxClients == 2
MaxPhrases == 1
MaxIndexed == 3

\* Fixed-point unit: the integer that stands for 1.0
Scale == 1000

\* ------------------------------------------------------------------------
\* Arithmetic helpers (numpy / builtins)
\* ------------------------------------------------------------------------
Min(a, b) == IF a <= b THEN a ELSE b

Max(a, b) == IF a >= b THEN a ELSE b

Range(s) == {s[i] : i \in 1..Len(s)}

RECURSIVE SeqSum(_)
SeqSum(s) == IF s = <<>> THEN 0 ELSE Head(s) + SeqSum(Tail(s))

RECURSIVE SeqMax(_)
SeqMax(s) == IF Len(s) = 1 THEN s[1] ELSE Max(Head(s), SeqMax(Tail(s)))

\* np.argmax: the position of the first maximum
ArgMax(s) == CHOOSE i \in 1..Len(s) :
                /\ \A j \in 1..Len(s) : s[j] <= s[i]
                /\ \A j \in 1..(i - 1) : s[j] < s[i]

RECURSIVE SqrtSearch(_, _, _)
SqrtSearch(n, lo, hi) ==
    IF lo >= hi THEN lo
    ELSE LET mid == (lo + hi + 1) \div 2
         IN  IF mid * mid <= n THEN SqrtSearch(n, mid, hi)
                               ELSE SqrtSearch(n, lo, mid - 1)

\* floor of the square root of n (n >= 0, below 2^31)
ISqrt(n) == SqrtSearch(n, 0, 46340)

Dim == 2

Dot(u, v) == u[1] * v[1] + u[2] * v[2]

\* ten times np.linalg.norm of a fixed-point vector (one more digit than the
\* vector's own resolution, as far as the integer width allows)
NormX10(u) ==
    LET d == Dot(u, u)
    IN  IF d < 20000000 THEN ISqrt(d * 100) ELSE 10 * ISqrt(d)

\* np.linalg.norm, in fixed-point units
Norm(u) == (NormX10(u) + 5) \div 10

Zero == <<0, 0>>

\* division rounding to nearest (the float result, to the model's resolution)
RDiv(a, b) == IF a >= 0 THEN (2 * a + b) \div (2 * b)
                        ELSE -((2 * (-a) + b) \div (2 * b))

\* v / norm guarded by norm > 0 (and sklearn's normalize): a zero vector
\* stays zero
Normalize(u) ==
    IF Dot(u, u) > 0
    THEN <<RDiv(u[1] * Scale * 10, NormX10(u)), RDiv(u[2] * Scale * 10, NormX10(u))>>
    ELSE u

\* sklearn.metrics.pairwise.cosine_similarity of two rows
CosineSimilarity(u, v) == RDiv(Dot(Normalize(u), Normalize(v)), Scale)

\* ========================================================================
\* State.  Every stage is a separate process run; a specification below
\* runs one stage and leaves the variables of the others as they start.
\* ========================================================================
\* step 14, select_diverse_recommendations
VARIABLES mmr_pc, candidates, k, lambda_param,
          selected_indices, remaining_indices, diverse_recommendations

mmrVars == <<mmr_pc, candidates, k, lambda_param,
             selected_indices, remaining_indices, diverse_recommendations>>

\* step 13, main, and VectorBasedRecommender.rerank_candidates
VARIABLES sc_pc, candidate_game_ids, target_tags, avoid_tags, score_weights,
          tag_scores, novelty_scores, recency_scores, popularity_scores,
          final_scores, scored_candidates,
          rr_weights, rr_query_vector, candidates_df

scoreVars == <<sc_pc, candidate_game_ids, target_tags, avoid_tags, score_weights,
               tag_scores, novelty_scores, recency_scores, popularity_scores,
               final_scores, scored_candidates,
               rr_weights, rr_query_vector, candidates_df>>

\* step 6, synthesize_game_vectors
VARIABLES syn_pc, tag_vecs, tag_beta, syn_kappa, syn_alpha, syn_eta,
          softmax_weights, avg_vecs, syn_game_vecs

synthVars == <<syn_pc, tag_vecs, tag_beta, syn_kappa, syn_alpha, syn_eta,
               softmax_weights, avg_vecs, syn_game_vecs>>

\* step 4, compute_ppmi_matrix
VARIABLES ppmi_pc, ppmi_X, ppmi_game_weights, C, ppmi_matrix

ppmiVars == <<ppmi_pc, ppmi_X, ppmi_game_weights, C, ppmi_matrix>>

\* quality weight builder, compute_user_game_scores_round10
VARIABLES q_pc, df_game, penalty, df_score

qualityVars == <<q_pc, df_game, penalty, df_score>>

\* retriever, _create_query_vector
VARIABLES vq_pc, vq_target_tags, vq_avoid_tags, vq_vector

vibeVars == <<vq_pc, vq_target_tags, vq_avoid_tags, vq_vector>>

\* similar mode: step 11 and the retriever
VARIABLES sim_pc, seed_games, sim_top_k, s11_status, s11_query_vector,
          rag_result, node_pc, node_candidate_appids, node_query_vector

similarVars == <<sim_pc, seed_games, sim_top_k, s11_status, s11_query_vector,
                 rag_result, node_pc, node_candidate_appids, node_query_vector>>

VARIABLES hc_pc, hc_candidates, hc_constraints, hc_game_data, filtered_candidates,
          step13_outcome, step13_raised, step13_stdout, step13_written,
          app_pc, app_candidate_appids, app_final_results

constraintVars == <<hc_pc, hc_candidates, hc_constraints, hc_game_data,
                    filtered_candidates, step13_outcome, step13_raised,
                    step13_stdout, step13_written,
                    app_pc, app_candidate_appids, app_final_results>>

VARIABLES ld_pc, ld_missing, ld_attrs, ld_faiss_index, ld_query, ld_result

loadVars == <<ld_pc, ld_missing, ld_attrs, ld_faiss_index, ld_query, ld_result>>

VARIABLES ix_program, ix_efSearch, ix_clients

searchVars == <<ix_program, ix_efSearch, ix_clients>>

VARIABLES w_pc, w_row2appid, w_scores, w_loaded, w_game_weights

weightsVars == <<w_pc, w_row2appid, w_scores, w_loaded, w_game_weights>>

VARIABLES md_pc, md_program, md_query, md_result

modesVars == <<md_pc, md_program, md_query, md_result>>

VARIABLES s12_pc, s12_program, s12_game_vecs, s12_query, s12_top_n, s12_index,
          s12_hits, s12_candidates, s12_app_result

candVars == <<s12_pc, s12_program, s12_game_vecs, s12_query, s12_top_n, s12_index,
              s12_hits, s12_candidates, s12_app_result>>

VARIABLES ex_pc, ex_parsed_json, ex_top_k, ex_expanded, ex_result

expandVars == <<ex_pc, ex_parsed_json, ex_top_k, ex_expanded, ex_result>>

VARIABLES rp_pc, rp_stage, rp_files, rp_started, rp_exits, rp_outcomes,
          rp_stale_reads, rp_return

runnerVars == <<rp_pc, rp_stage, rp_files, rp_started, rp_exits, rp_outcomes,
                rp_stale_reads, rp_return>>

VARIABLES it_pc, it_index_maps, it_intent_json, it_parsed, it_written, it_step11

intentVars == <<it_pc, it_index_maps, it_intent_json, it_parsed, it_written, it_step11>>

VARIABLES rt_pc, rt_program, rt_query, rt_top_k, rt_result

retrieveVars == <<rt_pc, rt_program, rt_query, rt_top_k, rt_result>>

vars == <<mmrVars, scoreVars, synthVars, ppmiVars, qualityVars, vibeVars, similarVars, constraintVars, loadVars, searchVars, weightsVars, modesVars, candVars, expandVars, runnerVars, intentVars, retrieveVars>>

\* what a stage leaves alone: the variables of the other stages
mmrOthers == <<scoreVars, synthVars, ppmiVars, qualityVars, vibeVars, similarVars, constraintVars, loadVars, searchVars, weightsVars, modesVars, candVars, expandVars, runnerVars, intentVars, retrieveVars>>

scoreOthers == <<mmrVars, synthVars, ppmiVars, qualityVars, vibeVars, similarVars, constraintVars, loadVars, searchVars, weightsVars, modesVars, candVars, expandVars, runnerVars, intentVars, retrieveVars>>

synthOthers == <<mmrVars, scoreVars, ppmiVars, qualityVars, vibeVars, similarVars, constraintVars, loadVars, searchVars, weightsVars, modesVars, candVars, expandVars, runnerVars, intentVars, retrieveVars>>

ppmiOthers == <<mmrVars, scoreVars, synthVars, qualityVars, vibeVars, similarVars, constraintVars, loadVars, searchVars, weightsVars, modesVars, candVars, expandVars, runnerVars, intentVars, retrieveVars>>

qualityOthers == <<mmrVars, scoreVars, synthVars, ppmiVars, vibeVars, similarVars, constraintVars, loadVars, searchVars, weightsVars, modesVars, candVars, expandVars, runnerVars, intentVars, retrieveVars>>

vibeOthers == <<mmrVars, scoreVars, synthVars, ppmiVars, qualityVars, similarVars, constraintVars, loadVars, searchVars, weightsVars, modesVars, candVars, expandVars, runnerVars, intentVars, retrieveVars>>

similarOthers == <<mmrVars, scoreVars, synthVars, ppmiVars, qualityVars, vibeVars, constraintVars, loadVars, searchVars, weightsVars, modesVars, candVars, expandVars, runnerVars, intentVars, retrieveVars>>

constraintOthers == <<mmrVars, scoreVars, synthVars, ppmiVars, qualityVars, vibeVars, similarVars, loadVars, searchVars, weightsVars, modesVars, candVars, expandVars, runnerVars, intentVars, retrieveVars>>

loadOthers == <<mmrVars, scoreVars, synthVars, ppmiVars, qualityVars, vibeVars, similarVars, constraintVars, searchVars, weightsVars, modesVars, candVars, expandVars, runnerVars, intentVars, retrieveVars>>

searchOthers == <<mmrVars, scoreVars, synthVars, ppmiVars, qualityVars, vibeVars, similarVars, constraintVars, loadVars, weightsVars, modesVars, candVars, expandVars, runnerVars, intentVars, retrieveVars>>

weightsOthers == <<mmrVars, scoreVars, synthVars, ppmiVars, qualityVars, vibeVars, similarVars, constraintVars, loadVars, searchVars, modesVars, candVars, expandVars, runnerVars, intentVars, retrieveVars>>

modesOthers == <<mmrVars, scoreVars, synthVars, ppmiVars, qualityVars, vibeVars, similarVars, constraintVars, loadVars, searchVars, weightsVars, candVars, expandVars, runnerVars, intentVars, retrieveVars>>

candOthers == <<mmrVars, scoreVars, synthVars, ppmiVars, qualityVars, vibeVars, similarVars, constraintVars, loadVars, searchVars, weightsVars, modesVars, expandVars, runnerVars, intentVars, retrieveVars>>

expandOthers == <<mmrVars, scoreVars, synthVars, ppmiVars, qualityVars, vibeVars, similarVars, constraintVars, loadVars, searchVars, weightsVars, modesVars, candVars, runnerVars, intentVars, retrieveVars>>

runnerOthers == <<mmrVars, scoreVars, synthVars, ppmiVars, qualityVars, vibeVars, similarVars, constraintVars, loadVars, searchVars, weightsVars, modesVars, candVars, expandVars, intentVars, retrieveVars>>

intentOthers == <<mmrVars, scoreVars, synthVars, ppmiVars, qualityVars, vibeVars, similarVars, constraintVars, loadVars, searchVars, weightsVars, modesVars, candVars, expandVars, runnerVars, retrieveVars>>

retrieveOthers == <<mmrVars, scoreVars, synthVars, ppmiVars, qualityVars, vibeVars, similarVars, constraintVars, loadVars, searchVars, weightsVars, modesVars, candVars, expandVars, runnerVars, intentVars>>

\* ========================================================================
\* Step 14: MMR diversity selection (src/step14.py)
\* ========================================================================

\* game_vecs.npy as step 14 loads it: row 3 is the zero vector of an
\* item without tags
game_vecs == <<
    <<1000, 0>>,
    <<600, 800>>,
    <<0, 0>> >>

Rows == 1..Len(game_vecs)

FinalScores == {0, 500, 1000}

Lambdas == {0, 500, 1000}

ScoredCandidate == [row_index : Rows, final : FinalScores]

RECURSIVE SeqsUpTo(_, _)
SeqsUpTo(S, n) ==
    IF n = 0 THEN {<<>>}
    ELSE LET shorter == SeqsUpTo(S, n - 1)
         IN  shorter \cup {Append(s, x) : s \in {t \in shorter : Len(t) = n - 1}, x \in S}

\* relevance_scores = [c['scores']['final'] for c in candidates]
RelevanceScores(cands) == [i \in 1..Len(cands) |-> cands[i].final]

\* similarity_matrix = cosine_similarity(game_vecs[candidate_indices])
SimilarityMatrix(cands) ==
    [i \in 1..Len(cands) |-> [j \in 1..Len(cands) |->
        CosineSimilarity(game_vecs[cands[i].row_index], game_vecs[cands[j].row_index])]]

\* diversity term of calculate_mmr_score: 0.0 when nothing is selected,
\* otherwise the maximum similarity to the selected candidates
MaxSimilarity(candidate_idx, selected, sim) ==
    IF selected = <<>> THEN 0
    ELSE SeqMax([j \in 1..Len(selected) |-> sim[candidate_idx][selected[j]]])

MmrScoreNoLambdaOnDiversity(candidate_idx, selected, relevance, sim, lam) ==
    lam * relevance[candidate_idx]
        + Scale * (Scale - MaxSimilarity(candidate_idx, selected, sim))

\* calculate_mmr_score, in units of 1 / Scale^2
calculate_mmr_score(candidate_idx, selected, relevance, sim, lam) ==
    lam * relevance[candidate_idx]
        + (Scale - lam) * (Scale - MaxSimilarity(candidate_idx, selected, sim))

RemoveKeepsAll(remaining, best_idx) == remaining

\* remaining_indices.remove(best_idx): drops the first occurrence
ListRemove(remaining, best_idx) ==
    LET p == CHOOSE i \in 1..Len(remaining) :
                 remaining[i] = best_idx /\ \A j \in 1..(i - 1) : remaining[j] # best_idx
    IN  [i \in 1..(Len(remaining) - 1) |->
            IF i < p THEN remaining[i] ELSE remaining[i + 1]]

\* range(min(k, len(candidates)))
NumRounds(kk, cands) == Max(0, Min(kk, Len(cands)))

\* the round taking the last of the equal maxima instead of the first
BestIdxLastMaximum(cands, selected, remaining, lam) ==
    LET rel == RelevanceScores(cands)
        sim == SimilarityMatrix(cands)
        mmr_scores == [p \in 1..Len(remaining) |->
                          calculate_mmr_score(remaining[p], selected, rel, sim, lam)]
    IN  remaining[CHOOSE p \in 1..Len(remaining) :
                     /\ \A o \in 1..Len(remaining) : mmr_scores[p] >= mmr_scores[o]
                     /\ \A o \in (p + 1)..Len(remaining) : mmr_scores[p] > mmr_scores[o]]

\* the candidate one round of the loop picks
BestIdx(cands, selected, remaining, lam) ==
    LET rel == RelevanceScores(cands)
        sim == SimilarityMatrix(cands)
        mmr_scores == [p \in 1..Len(remaining) |->
                          calculate_mmr_score(remaining[p], selected, rel, sim, lam)]
    IN  remaining[ArgMax(mmr_scores)]

\* the returned list: the selected candidates in selection order, with mmr_rank
Recommendations(cands, selected) ==
    [i \in 1..Len(selected) |->
        [row_index |-> cands[selected[i]].row_index,
         final |-> cands[selected[i]].final,
         pos |-> selected[i],
         mmr_rank |-> i]]

MmrInit ==
    /\ mmr_pc = "idle"
    /\ candidates = <<>>
    /\ k = 0
    /\ lambda_param = 0
    /\ selected_indices = <<>>
    /\ remaining_indices = <<>>
    /\ diverse_recommendations = <<>>

\* select_diverse_recommendations is called; an empty candidate list returns []
MmrCall ==
    /\ mmr_pc = "idle"
    /\ \E cands \in SeqsUpTo(ScoredCandidate, MaxCand), kk \in 0..MaxK, lam \in Lambdas :
          /\ candidates' = cands
          /\ k' = kk
          /\ lambda_param' = lam
          /\ selected_indices' = <<>>
          /\ remaining_indices' = [i \in 1..Len(cands) |-> i]
          /\ mmr_pc' = IF Len(cands) = 0 THEN "done" ELSE "loop"
    /\ UNCHANGED diverse_recommendations
    /\ UNCHANGED mmrOthers

\* one iteration of the selection loop
MmrRound ==
    /\ mmr_pc = "loop"
    /\ Len(selected_indices) < NumRounds(k, candidates)
    /\ LET best_idx == BestIdx(candidates, selected_indices, remaining_indices, lambda_param)
       IN  /\ selected_indices' = Append(selected_indices, best_idx)
           /\ remaining_indices' = ListRemove(remaining_indices, best_idx)
    /\ UNCHANGED <<mmr_pc, candidates, k, lambda_param, diverse_recommendations>>
    /\ UNCHANGED mmrOthers

\* the loop is over: build and return the recommendation list
MmrReturn ==
    /\ mmr_pc = "loop"
    /\ Len(selected_indices) >= NumRounds(k, candidates)
    /\ diverse_recommendations' = Recommendations(candidates, selected_indices)
    /\ mmr_pc' = "done"
    /\ UNCHANGED <<candidates, k, lambda_param, selected_indices, remaining_indices>>
    /\ UNCHANGED mmrOthers

MmrNext == MmrCall \/ MmrRound \/ MmrReturn

\* ========================================================================
\* Step 13: candidate scoring (src/tmp/step13.py) and the serving-side
\* re-ranker (src/st_app/rag/retriever.py, rerank_candidates)
\* ========================================================================
\* X_game_tag_csr.npz: the tag columns of each game row; row 3 has no tag
game_tag_matrix == << {1, 2, 3}, {2}, {} >>

\* tag_vocab.json tag2idx; "unknown" is a tag name outside the vocabulary
tag2idx == [t \in {"rpg", "indie", "horror"} |->
               CASE t = "rpg" -> 1 [] t = "indie" -> 2 [] t = "horror" -> 3]

\* game_weight.npy (step 3 writes min-max normalized weights in [0,1]); it
\* has one entry per reviewed game and may be shorter than the matrix
game_weights == <<1000, 250>>

GameRows == 1..Len(game_tag_matrix)

TargetTagLists == {<<>>, <<"rpg">>, <<"rpg", "horror">>, <<"indie", "unknown">>}

AvoidTagLists == {<<>>, <<"indie">>, <<"horror">>}

\* --alpha --beta --gamma --delta (type=float, any value is accepted)
ScoreWeightChoices == {
    [alpha |-> 400, beta |-> 200, gamma |-> 200, delta |-> 200],
    [alpha |-> 1000, beta |-> 0, gamma |-> 0, delta |-> 0],
    [alpha |-> 0, beta |-> 0, gamma |-> 0, delta |-> 0],
    [alpha |-> 2000, beta |-> 2000, gamma |-> 2000, delta |-> 2000],
    [alpha |-> -1000, beta |-> 1000, gamma |-> 0, delta |-> 0],
    [alpha |-> 0, beta |-> 0, gamma |-> 0, delta |-> -500] }

\* [tag2idx.get(tag, -1) ...] filtered to the valid ones
ValidTagIndices(tags) ==
    SelectSeq([i \in 1..Len(tags) |->
                  IF tags[i] \in DOMAIN tag2idx THEN tag2idx[tags[i]] ELSE -1],
              LAMBDA idx : idx # -1)

\* calculate_tag_match_score
calculate_tag_match_score(ids, targets, avoids) ==
    LET target_tag_indices == ValidTagIndices(targets)
        avoid_tag_indices == ValidTagIndices(avoids)
    IN  [i \in 1..Len(ids) |->
            LET game_tag_indices == game_tag_matrix[ids[i]]
                target_matches == Cardinality(game_tag_indices \cap Range(target_tag_indices))
                target_score == RDiv(target_matches * Scale, Max(Len(target_tag_indices), 1))
                avoid_matches == Cardinality(game_tag_indices \cap Range(avoid_tag_indices))
                avoid_penalty == avoid_matches * (Scale \div 2)
            IN  Max(0, target_score - avoid_penalty)]

\* game_tag_matrix.sum(axis=0): the number of games carrying a tag
AllTagCounts(t) == Cardinality({g \in GameRows : t \in game_tag_matrix[g]})

\* np.sum(all_tag_counts[game_tag_indices])
RECURSIVE SumTagCounts(_)
SumTagCounts(S) == IF S = {} THEN 0
                   ELSE LET x == CHOOSE y \in S : TRUE
                        IN  AllTagCounts(x) + SumTagCounts(S \ {x})

\* calculate_novelty_score
calculate_novelty_score(ids) ==
    LET total_games == Len(game_tag_matrix)
    IN  [i \in 1..Len(ids) |->
            LET game_tag_indices == game_tag_matrix[ids[i]]
            IN  IF game_tag_indices = {} THEN 0
                ELSE Scale - RDiv(SumTagCounts(game_tag_indices) * Scale,
                                  Cardinality(game_tag_indices) * total_games)]

\* calculate_recency_score
calculate_recency_score(ids) ==
    LET scores == [i \in 1..Len(ids) |->
                      IF ids[i] <= Len(game_weights) THEN game_weights[ids[i]] ELSE 0]
    IN  IF SeqMax(scores) > 0
        THEN [i \in 1..Len(ids) |-> RDiv(scores[i] * Scale, SeqMax(scores))]
        ELSE scores

\* calculate_popularity_score
calculate_popularity_score(ids) ==
    LET all_tag_counts == [g \in GameRows |-> Cardinality(game_tag_matrix[g])]
        max_tags == SeqMax(all_tag_counts)
    IN  [i \in 1..Len(ids) |->
            IF ids[i] <= Len(all_tag_counts)
            THEN (IF max_tags > 0 THEN RDiv(all_tag_counts[ids[i]] * Scale, max_tags) ELSE 0)
            ELSE 0]

WeightedSum(w, t, n, r, p) ==
    [i \in 1..Len(t) |->
        RDiv(w.alpha * t[i] + w.beta * n[i] + w.gamma * r[i] + w.delta * p[i], Scale)]

\* calculate_final_score: the weighted sum, divided by its maximum when that
\* maximum is positive
calculate_final_score(w, t, n, r, p) ==
    LET sums == WeightedSum(w, t, n, r, p)
    IN  IF SeqMax(sums) > 0
        THEN [i \in 1..Len(sums) |-> RDiv(sums[i] * Scale, SeqMax(sums))]
        ELSE sums

\* list.sort(key=final, reverse=True): stable, descending
RECURSIVE SortByFinalDesc(_)
SortByFinalDesc(s) ==
    IF s = <<>> THEN <<>>
    ELSE LET rest == SortByFinalDesc(Tail(s))
             before == SelectSeq(rest, LAMBDA c : c.final > Head(s).final)
             after == SelectSeq(rest, LAMBDA c : c.final <= Head(s).final)
         IN  before \o <<Head(s)>> \o after

ScoreInit ==
    /\ sc_pc = "idle"
    /\ candidate_game_ids = <<>>
    /\ target_tags = <<>>
    /\ avoid_tags = <<>>
    /\ score_weights = [alpha |-> 0, beta |-> 0, gamma |-> 0, delta |-> 0]
    /\ tag_scores = <<>>
    /\ novelty_scores = <<>>
    /\ recency_scores = <<>>
    /\ popularity_scores = <<>>
    /\ final_scores = <<>>
    /\ scored_candidates = <<>>
    /\ rr_weights = [tag_match |-> 0, novelty |-> 0]
    /\ rr_query_vector = Zero
    /\ candidates_df = <<>>

\* step 13 main: the candidates, the intent and the weights are loaded
ScoreLoad ==
    /\ sc_pc = "idle"
    /\ \E ids \in SeqsUpTo(GameRows, MaxScored) \ {<<>>},
          tt \in TargetTagLists, at \in AvoidTagLists, w \in ScoreWeightChoices :
          /\ candidate_game_ids' = ids
          /\ target_tags' = tt
          /\ avoid_tags' = at
          /\ score_weights' = w
    /\ sc_pc' = "loaded"
    /\ UNCHANGED <<tag_scores, novelty_scores, recency_scores, popularity_scores,
                   final_scores, scored_candidates,
                   rr_weights, rr_query_vector, candidates_df>>
    /\ UNCHANGED scoreOthers

\* step 13 main: the four per-factor score arrays
ScoreFactors ==
    /\ sc_pc = "loaded"
    /\ tag_scores' = calculate_tag_match_score(candidate_game_ids, target_tags, avoid_tags)
    /\ novelty_scores' = calculate_novelty_score(candidate_game_ids)
    /\ recency_scores' = calculate_recency_score(candidate_game_ids)
    /\ popularity_scores' = calculate_popularity_score(candidate_game_ids)
    /\ sc_pc' = "factors"
    /\ UNCHANGED <<candidate_game_ids, target_tags, avoid_tags, score_weights,
                   final_scores, scored_candidates,
                   rr_weights, rr_query_vector, candidates_df>>
    /\ UNCHANGED scoreOthers

\* step 13 main: final score, scores attached to the candidates, sort
ScoreFinal ==
    /\ sc_pc = "factors"
    /\ LET finals == calculate_final_score(score_weights, tag_scores, novelty_scores,
                                           recency_scores, popularity_scores)
       IN  /\ final_scores' = finals
           /\ scored_candidates' = SortByFinalDesc(
                 [i \in 1..Len(candidate_game_ids) |->
                     [row_index |-> candidate_game_ids[i],
                      tag_match |-> tag_scores[i],
                      novelty |-> novelty_scores[i],
                      recency |-> recency_scores[i],
                      popularity |-> popularity_scores[i],
                      final |-> finals[i]]])
    /\ sc_pc' = "done"
    /\ UNCHANGED <<candidate_game_ids, target_tags, avoid_tags, score_weights,
                   tag_scores, novelty_scores, recency_scores, popularity_scores,
                   rr_weights, rr_query_vector, candidates_df>>
    /\ UNCHANGED scoreOthers

\* rerank_candidates weights: the app's sliders give 0..10, the method
\* itself takes any numbers
RerankWeightChoices == {
    [tag_match |-> 8, novelty |-> 2],
    [tag_match |-> 0, novelty |-> 0],
    [tag_match |-> 10, novelty |-> 0],
    [tag_match |-> 2, novelty |-> -1] }

QueryVectors == {<<1000, 0>>, <<-600, 800>>, <<0, 0>>}

\* the rows of rerank_candidates's candidates_df, before the sort
RerankScores(appids, query_vector, weights) ==
    LET sum == weights.tag_match + weights.novelty
        total_weight == IF sum = 0 THEN 1 ELSE sum
        alpha == RDiv(weights.tag_match * Scale, total_weight)
        beta == RDiv(weights.novelty * Scale, total_weight)
    IN  [i \in 1..Len(appids) |->
            LET tag_match_score ==
                    Max(0, Min(Scale, CosineSimilarity(query_vector, game_vecs[appids[i]])))
                novelty_score == Scale \div 2
            IN  [appid |-> appids[i],
                 tag_match_score |-> tag_match_score,
                 novelty_score |-> novelty_score,
                 final_score |-> RDiv(alpha * tag_match_score + beta * novelty_score, Scale)]]

\* the orders sort_values(by='final_score', ascending=False) may give: the
\* default sort is not stable, so rows of equal final_score come in any order
SortedByFinalScore(rows) ==
    {[i \in 1..Len(rows) |-> rows[p[i]]] :
        p \in {q \in [1..Len(rows) -> 1..Len(rows)] :
                  /\ \A i, j \in 1..Len(rows) : i # j => q[i] # q[j]
                  /\ \A i, j \in 1..Len(rows) :
                        i < j => rows[q[i]].final_score >= rows[q[j]].final_score}}

\* rerank_candidates(candidate_appids, query_vector, weights, top_n)
Rerank ==
    /\ sc_pc = "idle"
    /\ \E appids \in SeqsUpTo(Rows, MaxScored) \ {<<>>}, q \in QueryVectors,
          w \in RerankWeightChoices, top_n \in 1..MaxScored :
          /\ rr_weights' = w
          /\ rr_query_vector' = q
          /\ \E sorted \in SortedByFinalScore(RerankScores(appids, q, w)) :
                candidates_df' = SubSeq(sorted, 1, Min(top_n, Len(sorted)))
    /\ sc_pc' = "reranked"
    /\ UNCHANGED <<candidate_game_ids, target_tags, avoid_tags, score_weights,
                   tag_scores, novelty_scores, recency_scores, popularity_scores,
                   final_scores, scored_candidates>>
    /\ UNCHANGED scoreOthers

ScoreNext == ScoreLoad \/ ScoreFactors \/ ScoreFinal \/ Rerank

\* ========================================================================
\* Step 6: item vector synthesis (src/step6.py)
\* ========================================================================
\* tag vectors as step 4 writes them (rows of U*Sigma, not normalized): unit
\* vectors, opposite directions, a long vector and the zero vector of a tag
\* whose PPMI row is empty
TagVecPalette == {<<1000, 0>>, <<600, 800>>, <<-1000, 0>>, <<0, 3000>>, <<0, 0>>}

\* tag effect coefficients (ridge coefficients, of either sign)
TagBetaPalette == {-1000, 1000, 2000}

\* --kappa, --alpha, --eta
Kappas == {500, 1000}

CountAlphas == {0, 500}

Etas == {0, 500}

RECURSIVE Pow2(_)
Pow2(n) == IF n = 0 THEN 1 ELSE 2 * Pow2(n - 1)

\* the game x tag matrix X over n tags: one row per subset of the tags, the
\* first row being a game without tags
GameTagRows(n) ==
    [r \in 1..Pow2(n) |-> {t \in 1..n : ((r - 1) \div Pow2(t - 1)) % 2 = 1}]

\* np.where(game_tags > 0)[0]: the tag columns of a row, ascending
RECURSIVE SortedSeq(_)
SortedSeq(S) ==
    IF S = {} THEN <<>>
    ELSE LET m == CHOOSE x \in S : \A y \in S : x <= y
         IN  <<m>> \o SortedSeq(S \ {m})

\* e^t for t >= 0 by its power series, term by term
RECURSIVE ExpSeries(_, _, _)
ExpSeries(t, term, n) ==
    IF term = 0 THEN 0
    ELSE term + ExpSeries(t, RDiv(term * t, n * Scale), n + 1)

\* np.exp(-t) for t >= 0
ExpNeg(t) == RDiv(Scale * Scale, ExpSeries(t, Scale, 1))

SoftmaxNotNormalized(x, kappa) ==
    LET x_scaled == [i \in 1..Len(x) |-> RDiv(x[i] * Scale, kappa)]
    IN  [i \in 1..Len(x) |-> ExpNeg(SeqMax(x_scaled) - x_scaled[i])]

SoftmaxOfNegated(x, kappa) ==
    LET x_scaled == [i \in 1..Len(x) |-> RDiv(x[i] * Scale, kappa)]
        exp_x == [i \in 1..Len(x) |-> ExpNeg(x_scaled[i] + SeqMax([j \in 1..Len(x) |-> -x_scaled[j]]))]
    IN  [i \in 1..Len(x) |-> RDiv(exp_x[i] * Scale, SeqSum(exp_x))]

\* softmax_kappa
softmax_kappa(x, kappa) ==
    LET x_scaled == [i \in 1..Len(x) |-> RDiv(x[i] * Scale, kappa)]
        exp_x == [i \in 1..Len(x) |-> ExpNeg(SeqMax(x_scaled) - x_scaled[i])]
    IN  [i \in 1..Len(x) |-> RDiv(exp_x[i] * Scale, SeqSum(exp_x))]

\* np.maximum(tag_beta, 0)
BetaRelu(beta) == [t \in 1..Len(beta) |-> Max(beta[t], 0)]

\* sum over i of w[i] * vs[i], component d
WeightedComponent(w, vs, d) == SeqSum([i \in 1..Len(w) |-> w[i] * vs[i][d]])

\* compute_beta_axis
compute_beta_axis(tvecs, beta) ==
    LET beta_relu == BetaRelu(beta)
        d_beta == <<RDiv(WeightedComponent(beta_relu, tvecs, 1), Scale),
                    RDiv(WeightedComponent(beta_relu, tvecs, 2), Scale)>>
    IN  Normalize(d_beta)

\* tag_count ** alpha, for the exponents the model draws
CountPower(tag_count, alpha) ==
    CASE alpha = 0 -> Scale
      [] alpha = 500 -> ISqrt(tag_count * Scale * Scale)
      [] alpha = 1000 -> tag_count * Scale

\* lines 150-156: the softmax weights of one game's tags
GameSoftmaxWeights(tag_indices, beta, kappa) ==
    LET beta_relu == BetaRelu(beta)
        max_beta == IF SeqMax(beta_relu) > 0 THEN SeqMax(beta_relu) ELSE Scale
        normalized_betas == [i \in 1..Len(tag_indices) |->
                                RDiv(beta_relu[tag_indices[i]] * Scale, max_beta)]
    IN  softmax_kappa(normalized_betas, kappa)

\* a compensation that divides the weight of the first tag only
CompensateFirstTagOnly(weights, alpha) ==
    IF Len(weights) > 1 /\ alpha > 0
    THEN [i \in 1..Len(weights) |->
             IF i = 1 THEN RDiv(weights[i] * Scale, CountPower(Len(weights), alpha))
             ELSE weights[i]]
    ELSE weights

\* lines 158-161: tag count compensation
CompensatedWeights(weights, alpha) ==
    IF Len(weights) > 1 /\ alpha > 0
    THEN [i \in 1..Len(weights) |-> RDiv(weights[i] * Scale, CountPower(Len(weights), alpha))]
    ELSE weights

AverageNotNormalized(tag_indices, tvecs, weights) ==
    LET game_tag_vecs == [i \in 1..Len(tag_indices) |-> tvecs[tag_indices[i]]]
    IN  <<RDiv(WeightedComponent(weights, game_tag_vecs, 1), SeqSum(weights)),
          RDiv(WeightedComponent(weights, game_tag_vecs, 2), SeqSum(weights))>>

\* lines 163-171: np.average with the weights, then L2 normalization
AverageVector(tag_indices, tvecs, weights) ==
    Normalize(AverageNotNormalized(tag_indices, tvecs, weights))

\* lines 173-182: steering along the beta axis, then L2 normalization
Steer(game_vec, d_beta, eta) ==
    IF eta > 0
    THEN LET dot_product == RDiv(Dot(game_vec, d_beta), Scale)
             step == RDiv(eta * dot_product, Scale)
         IN  Normalize(<<game_vec[1] + RDiv(step * d_beta[1], Scale),
                         game_vec[2] + RDiv(step * d_beta[2], Scale)>>)
    ELSE game_vec

SynthInit ==
    /\ syn_pc = "idle"
    /\ tag_vecs = <<>>
    /\ tag_beta = <<>>
    /\ syn_kappa = Scale
    /\ syn_alpha = 0
    /\ syn_eta = 0
    /\ softmax_weights = <<>>
    /\ avg_vecs = <<>>
    /\ syn_game_vecs = <<>>

\* step 6 main: X, tag_vecs and tag_beta are loaded and agree on the number
\* of tags
SynthLoad ==
    /\ syn_pc = "idle"
    /\ \E n \in 1..MaxTags :
          \E tv \in [1..n -> TagVecPalette], tb \in [1..n -> TagBetaPalette] :
              /\ tag_vecs' = tv
              /\ tag_beta' = tb
    /\ \E kp \in Kappas, al \in CountAlphas, et \in Etas :
          /\ syn_kappa' = kp
          /\ syn_alpha' = al
          /\ syn_eta' = et
    /\ syn_pc' = "loaded"
    /\ UNCHANGED <<softmax_weights, avg_vecs, syn_game_vecs>>
    /\ UNCHANGED synthOthers

\* synthesize_game_vectors: every row of X; a game without tags keeps the
\* zero vector. softmax_weights and avg_vecs record, per game, the weights
\* after the softmax and the vector after the weighted average.
Synthesize ==
    /\ syn_pc = "loaded"
    /\ LET X == GameTagRows(Len(tag_vecs))
           d_beta == compute_beta_axis(tag_vecs, tag_beta)
       IN  /\ softmax_weights' =
                 [i \in 1..Len(X) |->
                     IF X[i] = {} THEN <<>>
                     ELSE GameSoftmaxWeights(SortedSeq(X[i]), tag_beta, syn_kappa)]
           /\ avg_vecs' =
                 [i \in 1..Len(X) |->
                     IF X[i] = {} THEN Zero
                     ELSE AverageVector(SortedSeq(X[i]), tag_vecs,
                                        CompensatedWeights(softmax_weights'[i], syn_alpha))]
           /\ syn_game_vecs' =
                 [i \in 1..Len(X) |->
                     IF X[i] = {} THEN Zero ELSE Steer(avg_vecs'[i], d_beta, syn_eta)]
    /\ syn_pc' = "done"
    /\ UNCHANGED <<tag_vecs, tag_beta, syn_kappa, syn_alpha, syn_eta>>
    /\ UNCHANGED synthOthers

SynthNext == SynthLoad \/ Synthesize

\* ========================================================================
\* Step 4: weighted co-occurrence and PPMI (src/step4.py)
\* ========================================================================
\* the tag columns of X (tag2idx of the index maps)
NumPpmiTags == 3

PpmiTags == 1..NumPpmiTags

\* game weights of step 3, in [0,1], counted in quarters: 0, 0.25 and 1.0
WeightUnit == 4

PpmiWeights == {0, 1, 4}

\* np.sqrt(game_weights), counted in halves
SqrtWeight(w) == ISqrt(w)

\* C = (W X)^T (W X); entries counted in quarters
Cooccurrence(X, gw) ==
    [i \in PpmiTags |-> [j \in PpmiTags |->
        SeqSum([g \in 1..Len(X) |->
            (IF i \in X[g] THEN SqrtWeight(gw[g]) ELSE 0)
          * (IF j \in X[g] THEN SqrtWeight(gw[g]) ELSE 0)])]]

\* C.sum(axis=1), C.sum(axis=0), C.sum()
RowSums(cm) == [i \in PpmiTags |-> SeqSum(cm[i])]

ColSums(cm) == [j \in PpmiTags |-> SeqSum([i \in PpmiTags |-> cm[i][j]])]

TotalCooccurrences(cm) == SeqSum(RowSums(cm))

\* the largest t in lo..hi with e^t <= r, r and t in units of 1/Scale
RECURSIVE LnSearch(_, _, _)
LnSearch(r, lo, hi) ==
    IF lo >= hi THEN lo
    ELSE LET mid == (lo + hi + 1) \div 2
         IN  IF ExpSeries(mid, Scale, 1) <= r
             THEN LnSearch(r, mid, hi)
             ELSE LnSearch(r, lo, mid - 1)

LnMax == 6 * Scale

\* np.log(a / b) for a, b > 0: the sign is exact, the magnitude is to the
\* resolution 1/Scale and at least one unit when a # b
NpLog(a, b) ==
    IF a = b THEN 0
    ELSE IF a > b THEN Max(1, LnSearch((a * Scale) \div b, 0, LnMax))
    ELSE -Max(1, LnSearch((b * Scale) \div a, 0, LnMax))

\* pmi = log(p_xy / (p_x * p_y)) with p_xy = C[i,j]/total, p_x = row/total,
\* p_y = col/total
Pmi(cm, i, j) ==
    NpLog(cm[i][j] * TotalCooccurrences(cm), RowSums(cm)[i] * ColSums(cm)[j])

\* every pair with a co-occurrence keeps its PMI, unclipped
PmiEntries(cm) ==
    LET stored == {p \in PpmiTags \X PpmiTags : cm[p[1]][p[2]] > 0}
    IN  [p \in stored |-> Pmi(cm, p[1], p[2])]

\* lines 85-100: the (row, col) -> data triplets of the sparse PPMI matrix
PpmiEntries(cm) ==
    LET stored == {p \in PpmiTags \X PpmiTags :
                      /\ cm[p[1]][p[2]] > 0
                      /\ RowSums(cm)[p[1]] > 0 /\ ColSums(cm)[p[2]] > 0
                      /\ Max(0, Pmi(cm, p[1], p[2])) > 0}
    IN  [p \in stored |-> Max(0, Pmi(cm, p[1], p[2]))]

PpmiInit ==
    /\ ppmi_pc = "idle"
    /\ ppmi_X = <<>>
    /\ ppmi_game_weights = <<>>
    /\ C = <<>>
    /\ ppmi_matrix = <<>>

\* step 4 main: X and game_weights are loaded, one weight per game
PpmiLoad ==
    /\ ppmi_pc = "idle"
    /\ \E n \in 1..MaxGames :
          \E X \in [1..n -> SUBSET PpmiTags], w \in [1..n -> PpmiWeights] :
              /\ ppmi_X' = X
              /\ ppmi_game_weights' = w
    /\ ppmi_pc' = "loaded"
    /\ UNCHANGED <<C, ppmi_matrix>>
    /\ UNCHANGED ppmiOthers

\* compute_ppmi_matrix
ComputePpmi ==
    /\ ppmi_pc = "loaded"
    /\ C' = Cooccurrence(ppmi_X, ppmi_game_weights)
    /\ ppmi_matrix' = PpmiEntries(C')
    /\ ppmi_pc' = "done"
    /\ UNCHANGED <<ppmi_X, ppmi_game_weights>>
    /\ UNCHANGED ppmiOthers

PpmiNext == PpmiLoad \/ ComputePpmi

\* ========================================================================
\* Quality weight builder (src/user_game_scores_penalty.py)
\* ========================================================================
\* the rows of user_game_matrix.csv: appid, voted_up as read, playtime
Appids == {1, 2}

Playtimes == {10, 20, 30}

Review == [appid : Appids, voted_up : BOOLEAN, playtime_forever : Playtimes]

\* ALPHA10_POS, ALPHA10_NEG and PENALTY_MODE: the defaults, the fixed mode,
\* a penalty above 1 whose factor drops below zero, a bonus that lifts the
\* product above 10, and negative strengths
PenaltyProfiles == {
    [alpha_pos |-> 300, alpha_neg |-> 500, penalty_mode |-> "linear"],
    [alpha_pos |-> 300, alpha_neg |-> 500, penalty_mode |-> "fixed"],
    [alpha_pos |-> 300, alpha_neg |-> 1500, penalty_mode |-> "fixed"],
    [alpha_pos |-> 2000, alpha_neg |-> 1500, penalty_mode |-> "linear"],
    [alpha_pos |-> -1500, alpha_neg |-> -500, penalty_mode |-> "linear"] }

\* _coerce_voted_up: int(bool(x))
CoerceVotedUp(x) == IF x THEN 1 ELSE 0

\* the rows of the same appid as row i
SameApp(df, i) == {j \in 1..Len(df) : df[j].appid = df[i].appid}

MinRank2(df, i) ==
    2 * (Cardinality({j \in SameApp(df, i) :
            df[j].playtime_forever < df[i].playtime_forever}) + 1)

\* groupby("appid")["playtime_forever"].rank(method="average"), doubled:
\* the mean of the positions the tied rows occupy
AverageRank2(df, i) ==
    2 * Cardinality({j \in SameApp(df, i) : df[j].playtime_forever < df[i].playtime_forever})
    + Cardinality({j \in SameApp(df, i) : df[j].playtime_forever = df[i].playtime_forever})
    + 1

\* groupby("appid")["playtime_forever"].transform("count")
Count(df, i) == Cardinality(SameApp(df, i))

\* percent-rank: (rank-1)/(n-1), 1.0 when n = 1
Ptile(rank2, cnt) ==
    IF cnt - 1 > 0 THEN RDiv((rank2 - 2) * Scale, 2 * (cnt - 1)) ELSE Scale

\* np.rint(a / b): to the nearest integer, a half to the even one
Rint(a, b) ==
    LET q == a \div b
        r == a % b
    IN  IF 2 * r < b THEN q
        ELSE IF 2 * r > b THEN q + 1
        ELSE IF q % 2 = 0 THEN q ELSE q + 1

Clip(x, lo, hi) == Max(lo, Min(x, hi))

\* np.rint(ptile * 10).astype(int).clip(0, 10)
SRound10(ptile) == Clip(Rint(ptile * 10, Scale), 0, 10)

\* the vote factor without its floor at 0
VoteFactorNoFloor(voted_up, s10, p) ==
    IF p.penalty_mode = "fixed"
    THEN Scale + p.alpha_pos * voted_up - p.alpha_neg * (1 - voted_up)
    ELSE Scale + p.alpha_pos * voted_up - RDiv(p.alpha_neg * (1 - voted_up) * s10, 10)

\* lines 88-97: the vote factor, not below 0
VoteFactor(voted_up, s10, p) ==
    Max(IF p.penalty_mode = "fixed"
        THEN Scale + p.alpha_pos * voted_up - p.alpha_neg * (1 - voted_up)
        ELSE Scale + p.alpha_pos * voted_up
                   - RDiv(p.alpha_neg * (1 - voted_up) * s10, 10),
        0)

\* compute_user_game_scores_round10, row i of the output
ScoreRow(df, i, p) ==
    LET rank2 == AverageRank2(df, i)
        cnt == Count(df, i)
        ptile == Ptile(rank2, cnt)
        s10 == SRound10(ptile)
        voted_up == CoerceVotedUp(df[i].voted_up)
        vote_factor == VoteFactor(voted_up, s10, p)
    IN  [appid |-> df[i].appid, voted_up |-> voted_up,
         playtime_forever |-> df[i].playtime_forever,
         rank2 |-> rank2, cnt |-> cnt, ptile |-> ptile, s_round10 |-> s10,
         vote_factor |-> vote_factor,
         s_round10_rec |-> Clip(s10 * vote_factor, 0, 10 * Scale)]

QualityInit ==
    /\ q_pc = "idle"
    /\ df_game = <<>>
    /\ penalty = [alpha_pos |-> 300, alpha_neg |-> 500, penalty_mode |-> "linear"]
    /\ df_score = <<>>

\* main: the input CSV is read and has the required columns
QualityLoad ==
    /\ q_pc = "idle"
    /\ \E n \in 1..MaxReviews : \E df \in [1..n -> Review] : df_game' = df
    /\ \E p \in PenaltyProfiles : penalty' = p
    /\ q_pc' = "loaded"
    /\ UNCHANGED df_score
    /\ UNCHANGED qualityOthers

\* compute_user_game_scores_round10
ComputeScores ==
    /\ q_pc = "loaded"
    /\ df_score' = [i \in 1..Len(df_game) |-> ScoreRow(df_game, i, penalty)]
    /\ q_pc' = "done"
    /\ UNCHANGED <<df_game, penalty>>
    /\ UNCHANGED qualityOthers

QualityNext == QualityLoad \/ ComputeScores

\* ========================================================================
\* Retriever: vibe query vector (src/st_app/rag/retriever.py)
\* ========================================================================
\* tag_vocab.json and tag_vecs.npy as _load_data reads them
tag_to_idx == [t \in {"rpg", "indie", "horror"} |->
                  CASE t = "rpg" -> 1 [] t = "indie" -> 2 [] t = "horror" -> 3]

rag_tag_vecs == << <<1000, 0>>, <<600, 800>>, <<0, 3000>> >>

\* tag names a parsed query can carry; "unknown" is not in the vocabulary
QueryTagNames == {"rpg", "indie", "unknown"}

\* stated weights: 1.0, 2.0, and a negative similarity appended by tag
\* expansion
QueryTagWeights == {1000, 2000, -300}

\* an entry of target_tags: a name, with or without a 'weight' key
TagInfo ==
    [name : QueryTagNames, has_weight : {TRUE}, weight : QueryTagWeights]
    \cup [name : QueryTagNames, has_weight : {FALSE}, weight : {0}]

\* tag_info.get('weight', 1.0)
GetWeight(tag_info) == IF tag_info.has_weight THEN tag_info.weight ELSE Scale

\* vec * weight
ScaleVec(vec, weight) == <<RDiv(vec[1] * weight, Scale), RDiv(vec[2] * weight, Scale)>>

AddVec(u, v) == <<u[1] + v[1], u[2] + v[2]>>

SubVec(u, v) == <<u[1] - v[1], u[2] - v[2]>>

\* lines 79-83: the loop over target_tags, from position i on
RECURSIVE AddTargets(_, _, _)
AddTargets(final_vector, targets, i) ==
    IF i > Len(targets) THEN final_vector
    ELSE IF targets[i].name \in DOMAIN tag_to_idx
         THEN AddTargets(AddVec(final_vector,
                                ScaleVec(rag_tag_vecs[tag_to_idx[targets[i].name]],
                                         GetWeight(targets[i]))),
                         targets, i + 1)
         ELSE AddTargets(final_vector, targets, i + 1)

\* lines 84-86: the loop over avoid_tags, from position i on
RECURSIVE SubtractAvoided(_, _, _)
SubtractAvoided(final_vector, avoided, i) ==
    IF i > Len(avoided) THEN final_vector
    ELSE IF avoided[i] \in DOMAIN tag_to_idx
         THEN SubtractAvoided(SubVec(final_vector, rag_tag_vecs[tag_to_idx[avoided[i]]]),
                              avoided, i + 1)
         ELSE SubtractAvoided(final_vector, avoided, i + 1)

QueryVectorIgnoringAvoided(targets, avoided) == AddTargets(Zero, targets, 1)

\* _create_query_vector
create_query_vector(targets, avoided) ==
    SubtractAvoided(AddTargets(Zero, targets, 1), avoided, 1)

VibeInit ==
    /\ vq_pc = "idle"
    /\ vq_target_tags = <<>>
    /\ vq_avoid_tags = <<>>
    /\ vq_vector = Zero

\* a parsed query arrives
VibeParse ==
    /\ vq_pc = "idle"
    /\ \E tt \in SeqsUpTo(TagInfo, MaxQueryTags), av \in SeqsUpTo(QueryTagNames, MaxQueryTags) :
          /\ vq_target_tags' = tt
          /\ vq_avoid_tags' = av
    /\ vq_pc' = "parsed"
    /\ UNCHANGED vq_vector
    /\ UNCHANGED vibeOthers

\* _create_query_vector on the parsed query
CreateQueryVector ==
    /\ vq_pc = "parsed"
    /\ vq_vector' = create_query_vector(vq_target_tags, vq_avoid_tags)
    /\ vq_pc' = "done"
    /\ UNCHANGED <<vq_target_tags, vq_avoid_tags>>
    /\ UNCHANGED vibeOthers

VibeNext == VibeParse \/ CreateQueryVector

\* ========================================================================
\* Similar mode: step 11 and the retriever (src/step11.py,
\* src/st_app/rag/retriever.py, src/st_app/rag/nodes/recommendation_nodes.py)
\* ========================================================================
\* the catalog: steam_games_tags.csv indexed by appid, rows in the order of
\* game_vecs
games_df == << [appid |-> 10, game_title |-> "Portal"],
               [appid |-> 20, game_title |-> "Doom"],
               [appid |-> 30, game_title |-> "Celeste"] >>

\* index_maps['appid2row'] and self.appid_to_idx
appid2row == [a \in {games_df[r].appid : r \in Rows} |->
                 CHOOSE r \in Rows : games_df[r].appid = a]

\* self.idx_to_appid
idx_to_appid == [r \in Rows |-> games_df[r].appid]

\* str.lower() on the titles that occur
Lower == [t \in {"Portal", "Doom", "Celeste", "portal", "DOOM", "Unknown"} |->
             CASE t \in {"Portal", "portal"} -> "portal"
               [] t \in {"Doom", "DOOM"} -> "doom"
               [] t = "Celeste" -> "celeste"
               [] t = "Unknown" -> "unknown"]

\* a seed as the two front ends name it: the id in intent.json, the title in
\* parsed_json; id 99 / "Unknown" is not in the catalog
SeedRef == { [id |-> 10, title |-> "portal"], [id |-> 20, title |-> "DOOM"],
             [id |-> 30, title |-> "Celeste"], [id |-> 99, title |-> "Unknown"] }

TopKs == {1, 2}

\* Python None
None == <<>>

SumVector(vs) == <<SeqSum([i \in 1..Len(vs) |-> vs[i][1]]),
                   SeqSum([i \in 1..Len(vs) |-> vs[i][2]])>>

\* np.mean(vectors, axis=0)
MeanVector(vs) == <<RDiv(SumVector(vs)[1], Len(vs)), RDiv(SumVector(vs)[2], Len(vs))>>

\* step 11, lines 65-74: the vectors of the seed ids found in appid2row
RECURSIVE Step11SeedVectors(_)
Step11SeedVectors(games) ==
    IF games = <<>> THEN <<>>
    ELSE (IF Head(games).id \in DOMAIN appid2row
          THEN <<game_vecs[appid2row[Head(games).id]]>>
          ELSE <<>>) \o Step11SeedVectors(Tail(games))

\* generate_similar_query_vector: ValueError when no seed resolves, else the
\* mean, L2-normalized when its norm is > 0
generate_similar_query_vector(games) ==
    LET game_vectors == Step11SeedVectors(games)
    IN  IF game_vectors = <<>>
        THEN [status |-> "ValueError", query_vector |-> None]
        ELSE [status |-> "ok", query_vector |-> Normalize(MeanVector(game_vectors))]

\* retriever, line 95: the catalog rows whose lower-cased title equals the
\* lower-cased seed title
TitleRows(title) == {r \in Rows : Lower[games_df[r].game_title] = Lower[title]}

\* retriever, lines 93-98: the rows of the seeds found, in seed order
RECURSIVE RetrieverSeedRows(_)
RetrieverSeedRows(games) ==
    IF games = <<>> THEN <<>>
    ELSE (IF TitleRows(Head(games).title) # {}
          THEN <<CHOOSE r \in TitleRows(Head(games).title) :
                     \A o \in TitleRows(Head(games).title) : r <= o>>
          ELSE <<>>) \o RetrieverSeedRows(Tail(games))

\* squared L2 distance of the flat index
L2Distance(q, r) == Dot(SubVec(q, game_vecs[r]), SubVec(q, game_vecs[r]))

\* faiss_index.search(query_vector, n): the rows by increasing distance,
\* filled with the label -1 (here 0) beyond the size of the index
RECURSIVE NearestRows(_, _, _)
NearestRows(q, n, left) ==
    IF n = 0 THEN <<>>
    ELSE IF left = {} THEN <<0>> \o NearestRows(q, n - 1, left)
    ELSE LET best == CHOOSE r \in left : \A o \in left :
                        \/ L2Distance(q, r) < L2Distance(q, o)
                        \/ (L2Distance(q, r) = L2Distance(q, o) /\ r <= o)
         IN  <<best>> \o NearestRows(q, n - 1, left \ {best})

\* the first n entries of a list
Take(s, n) == SubSeq(s, 1, Min(n, Len(s)))

\* recommend_similar
recommend_similar(games, top_k) ==
    LET seed_rows == RetrieverSeedRows(games)
        seed_appids == {idx_to_appid[seed_rows[i]] : i \in 1..Len(seed_rows)}
        query_vector == MeanVector([i \in 1..Len(seed_rows) |-> game_vecs[seed_rows[i]]])
        indices == NearestRows(query_vector, top_k + Cardinality(seed_appids), Rows)
        hits == SelectSeq(indices, LAMBDA r : idx_to_appid[r] \notin seed_appids)
    IN  IF games = <<>>
        THEN [status |-> "error", error |-> "No seed games",
              candidates |-> <<>>, query_vector |-> None]
        ELSE IF seed_rows = <<>>
        THEN [status |-> "error", error |-> "Seed games not found",
              candidates |-> <<>>, query_vector |-> None]
        ELSE IF \E i \in 1..Len(indices) : indices[i] \notin DOMAIN idx_to_appid
        THEN [status |-> "KeyError", error |-> "",
              candidates |-> <<>>, query_vector |-> None]
        ELSE [status |-> "ok", error |-> "",
              candidates |-> Take([i \in 1..Len(hits) |-> idx_to_appid[hits[i]]], top_k),
              query_vector |-> query_vector]

SimilarInit ==
    /\ sim_pc = "idle"
    /\ seed_games = <<>>
    /\ sim_top_k = 1
    /\ s11_status = "idle"
    /\ s11_query_vector = None
    /\ rag_result = [status |-> "none", error |-> "", candidates |-> <<>>,
                     query_vector |-> None]
    /\ node_pc = "idle"
    /\ node_candidate_appids = <<>>
    /\ node_query_vector = None

\* a similar-mode query arrives
SimilarRequest ==
    /\ sim_pc = "idle"
    /\ \E g \in SeqsUpTo(SeedRef, MaxSeeds) : seed_games' = g
    /\ \E n \in TopKs : sim_top_k' = n
    /\ sim_pc' = "requested"
    /\ UNCHANGED <<s11_status, s11_query_vector, rag_result, node_pc,
                   node_candidate_appids, node_query_vector>>
    /\ UNCHANGED similarOthers

\* step 11 main in similar mode: the vector is saved unless
\* generate_similar_query_vector raises
Step11Similar ==
    /\ sim_pc = "requested"
    /\ s11_status = "idle"
    /\ LET r == generate_similar_query_vector(seed_games)
       IN  /\ s11_status' = r.status
           /\ s11_query_vector' = r.query_vector
    /\ UNCHANGED <<sim_pc, seed_games, sim_top_k, rag_result, node_pc,
                   node_candidate_appids, node_query_vector>>
    /\ UNCHANGED similarOthers

\* similar_node: recommend_similar, then result.get("candidates", []) and
\* result.get("query_vector"); a KeyError leaves the state as it was
SimilarNode ==
    /\ sim_pc = "requested"
    /\ node_pc = "idle"
    /\ LET result == recommend_similar(seed_games, sim_top_k)
       IN  /\ rag_result' = result
           /\ IF result.status = "KeyError"
              THEN /\ node_pc' = "raised"
                   /\ UNCHANGED <<node_candidate_appids, node_query_vector>>
              ELSE /\ node_pc' = "done"
                   /\ node_candidate_appids' = result.candidates
                   /\ node_query_vector' = result.query_vector
    /\ UNCHANGED <<sim_pc, seed_games, sim_top_k, s11_status, s11_query_vector>>
    /\ UNCHANGED similarOthers

SimilarNext == SimilarRequest \/ Step11Similar \/ SimilarNode

\* ========================================================================
\* Step 13: hard constraints and the empty result (src/tmp/step13.py), and
\* the tail of the app graph (src/st_app/app.py, response_generator_node.py)
\* ========================================================================
\* game ids of the candidates; game 3 has no entry in the metadata
CandidateGames == 1..3

\* a game_info dictionary: `present` lists the keys the dictionary has
EmptyInfo == [present |-> {}, price |-> 0, platforms |-> {}, languages |-> {},
              age_rating |-> 0]

\* attributes of the games, as a metadata dictionary keyed by game id holds them
game_metadata ==
    (1 :> [present |-> {"price", "platforms", "languages", "age_rating"},
           price |-> 10, platforms |-> {"windows"}, languages |-> {"en"},
           age_rating |-> 12]) @@
    (2 :> [present |-> {"price", "platforms", "languages", "age_rating"},
           price |-> 30, platforms |-> {"windows", "mac"},
           languages |-> {"en", "ko"}, age_rating |-> 18])

\* the dictionary step 13 main passes as game_data: {}
NoMetadata == [g \in {} |-> EmptyInfo]

GameDataChoices == {game_metadata, NoMetadata}

\* one entry of intent_data['constraints']; num holds a number, str a string
ConstraintItems == {
    [key |-> "price_max", num |-> 20, str |-> ""],
    [key |-> "price_min", num |-> 20, str |-> ""],
    [key |-> "price_min", num |-> 0, str |-> ""],
    [key |-> "platform", num |-> 0, str |-> "mac"],
    [key |-> "language", num |-> 0, str |-> "en"],
    [key |-> "age_rating", num |-> 15, str |-> ""],
    [key |-> "multiplayer", num |-> 1, str |-> ""] }

\* the constraints dictionaries: at most MaxConstraints keys, each key once
ConstraintDicts ==
    {c \in SUBSET ConstraintItems :
        /\ Cardinality(c) <= MaxConstraints
        /\ \A x, y \in c : x.key = y.key => x = y}

\* lists of candidates, in ANN order, no game twice
CandidateLists ==
    {s \in SeqsUpTo(CandidateGames, MaxFiltered) :
        \A i, j \in 1..Len(s) : i # j => s[i] # s[j]}

\* game_data.get(str(game_id), {})
GameInfoOf(game_data, game_id) ==
    IF game_id \in DOMAIN game_data THEN game_data[game_id] ELSE EmptyInfo

\* price above every number: float('inf')
Inf == 1000000

\* the branches of the loop over constraints.items(): TRUE when the
\* constraint sets passed = False
FailsConstraint(game_info, c) ==
    CASE c.key = "price_max" ->
            (IF "price" \in game_info.present THEN game_info.price ELSE Inf) > c.num
      [] c.key = "price_min" ->
            (IF "price" \in game_info.present THEN game_info.price ELSE 0) < c.num
      [] c.key = "platform" ->
            c.str \notin (IF "platforms" \in game_info.present
                          THEN game_info.platforms ELSE {})
      [] c.key = "language" ->
            c.str \notin (IF "languages" \in game_info.present
                          THEN game_info.languages ELSE {})
      [] c.key = "age_rating" ->
            (IF "age_rating" \in game_info.present THEN game_info.age_rating ELSE 0)
                > c.num
      [] OTHER -> FALSE

\* apply_hard_constraints (step 13) and filter_candidates_by_constraints
\* (step 12), which have the same body
RECURSIVE apply_hard_constraints(_, _, _)
apply_hard_constraints(cands, constraints, game_data) ==
    IF constraints = {} THEN cands
    ELSE IF cands = <<>> THEN <<>>
    ELSE LET game_info == GameInfoOf(game_data, Head(cands))
             passed == \A c \in constraints : ~FailsConstraint(game_info, c)
             rest == apply_hard_constraints(Tail(cands), constraints, game_data)
         IN  IF passed THEN <<Head(cands)>> \o rest ELSE rest

\* what csr_matrix.load_npz(...) of step 13 main does: the class of the
\* installed scipy may or may not have the attribute
LoadOutcomes == {"loaded", "AttributeError"}

\* the outcome that reports no result, replaced by a normal one
OutcomeAlwaysWritten(filtered) == "written"

\* step 13 main after the filter: an empty list prints the error line and returns
Step13Outcome(filtered) ==
    IF filtered = <<>> THEN "no_candidates" ELSE "written"

ConstraintInit ==
    /\ hc_pc = "idle"
    /\ hc_candidates = <<>>
    /\ hc_constraints = {}
    /\ hc_game_data = NoMetadata
    /\ filtered_candidates = <<>>
    /\ step13_outcome = "none"
    /\ step13_raised = FALSE
    /\ step13_stdout = {}
    /\ step13_written = <<>>
    /\ app_pc = "idle"
    /\ app_candidate_appids = <<>>
    /\ app_final_results = [kind |-> "none", rows |-> <<>>]

\* a call of the filter with a metadata dictionary of the caller's; the
\* script and the app are separate programs, one run is followed at a time
FilterCall ==
    /\ hc_pc = "idle"
    /\ app_pc = "idle"
    /\ \E cands \in CandidateLists, cons \in ConstraintDicts, gd \in GameDataChoices :
          /\ hc_candidates' = cands
          /\ hc_constraints' = cons
          /\ hc_game_data' = gd
          /\ filtered_candidates' = apply_hard_constraints(cands, cons, gd)
    /\ hc_pc' = "filtered"
    /\ UNCHANGED <<step13_outcome, step13_raised, step13_stdout, step13_written,
                   app_pc, app_candidate_appids, app_final_results>>
    /\ UNCHANGED constraintOthers

\* step 13 main with its input files present: load, filter with {} as
\* metadata, report and return when nothing is left, else score (the scoring
\* component above), sort and write the surviving candidates
Step13Main ==
    /\ hc_pc = "idle"
    /\ app_pc = "idle"
    /\ \E cands \in CandidateLists, cons \in ConstraintDicts, load \in LoadOutcomes :
          /\ hc_candidates' = cands
          /\ hc_constraints' = cons
          /\ hc_game_data' = NoMetadata
          /\ IF load = "AttributeError"
             THEN /\ filtered_candidates' = <<>>
                  /\ step13_outcome' = "AttributeError"
                  /\ step13_raised' = TRUE
                  /\ step13_stdout' = {}
                  /\ step13_written' = <<>>
             ELSE LET filtered == apply_hard_constraints(cands, cons, NoMetadata)
                      outcome == Step13Outcome(filtered)
                  IN  /\ filtered_candidates' = filtered
                      /\ step13_outcome' = outcome
                      /\ step13_raised' = FALSE
                      /\ step13_stdout' =
                            IF outcome = "no_candidates"
                            THEN {"[ERROR] no candidate satisfies the constraints"}
                            ELSE {"filter and scoring done"}
                      /\ step13_written' =
                            IF outcome = "written" THEN filtered ELSE <<>>
    /\ hc_pc' = "step13_done"
    /\ UNCHANGED <<app_pc, app_candidate_appids, app_final_results>>
    /\ UNCHANGED constraintOthers

\* generate_response_node: the fixed sentence for an empty DataFrame, else
\* the LLM's answer about the rows
response_text(rows) ==
    IF rows = <<>> THEN "no_game_found" ELSE "llm_response"

\* rerank_node of the app: rerank_candidates(appids, query_vec, weights, top_n=5)
RerankNode ==
    /\ app_pc = "idle"
    /\ hc_pc = "idle"
    /\ \E appids \in CandidateLists, q \in QueryVectors, w \in RerankWeightChoices :
          /\ app_candidate_appids' = appids
          /\ IF appids = <<>>
             THEN app_final_results' = [kind |-> "DataFrame", rows |-> <<>>]
             ELSE \E sorted \in SortedByFinalScore(RerankScores(appids, q, w)) :
                     app_final_results' =
                        [kind |-> "DataFrame", rows |-> Take(sorted, 5)]
    /\ app_pc' = "reranked"
    /\ UNCHANGED <<hc_pc, hc_candidates, hc_constraints, hc_game_data,
                   filtered_candidates, step13_outcome, step13_raised,
                   step13_stdout, step13_written>>
    /\ UNCHANGED constraintOthers

\* generate_response_node
GenerateResponse ==
    /\ app_pc = "reranked"
    /\ app_final_results' =
          [kind |-> response_text(app_final_results.rows),
           rows |-> app_final_results.rows]
    /\ app_pc' = "responded"
    /\ UNCHANGED app_candidate_appids
    /\ UNCHANGED <<hc_pc, hc_candidates, hc_constraints, hc_game_data,
                   filtered_candidates, step13_outcome, step13_raised,
                   step13_stdout, step13_written>>
    /\ UNCHANGED constraintOthers

ConstraintNext == FilterCall \/ Step13Main \/ RerankNode \/ GenerateResponse

\* ========================================================================
\* Loading the artifacts (src/st_app/rag/retriever.py, src/step11.py main)
\* ========================================================================
\* the files _load_data reads, in its order, and the attribute each one sets
LoadOrder == <<"faiss_index.faiss", "steam_games_tags.csv", "game_vecs.npy",
               "tag_vecs.npy", "W_align.npy", "tag_vocab.json">>

LoadedAttribute == <<"faiss_index", "games_df", "game_vecs", "tag_vecs", "W_align",
                     "tag_vocab">>

\* position of the first missing file, Len(LoadOrder) + 1 when none is missing
FirstMissing(missing) ==
    IF \E i \in 1..Len(LoadOrder) : LoadOrder[i] \in missing
    THEN CHOOSE i \in 1..Len(LoadOrder) :
            /\ LoadOrder[i] \in missing
            /\ \A j \in 1..(i - 1) : LoadOrder[j] \notin missing
    ELSE Len(LoadOrder) + 1

\* the attributes self has after _load_data: the try block stops at the first
\* missing file, the maps are built after the last file, and the except
\* branch assigns faiss_index only
AttributesAfterLoad(missing) ==
    LET p == FirstMissing(missing)
    IN  {"faiss_index"}
        \cup {LoadedAttribute[i] : i \in 2..Min(p - 1, Len(LoadOrder) - 1)}
        \cup (IF p > Len(LoadOrder)
              THEN {"tag_to_idx", "idx_to_tag", "appid_to_idx", "idx_to_appid"}
              ELSE {})

\* what reading a missing index file raises: faiss reports it with its own
\* exception type, which the except clause may or may not catch
MissingIndexErrors == {"FileNotFoundError", "RuntimeError"}

QueryModes == {"similar", "vibe", "hybrid"}

\* expand_query_tags on a query with or without phrases and known target tags
expand_query_tags(attrs, has_phrases, has_tags) ==
    IF "tag_vecs" \notin attrs THEN "AttributeError"
    ELSE IF "W_align" \notin attrs THEN "AttributeError"
    ELSE IF has_tags /\ "tag_to_idx" \notin attrs THEN "AttributeError"
    ELSE IF ~has_phrases /\ ~has_tags THEN "returned"
    ELSE IF "idx_to_tag" \notin attrs THEN "AttributeError"
    ELSE "returned"

\* recommend_similar / recommend_vibe / recommend_hybrid for a query whose
\* seed games resolve
recommend(faiss_index, mode, has_tags) ==
    IF faiss_index = "None" THEN "error: Recommender not initialized"
    ELSE IF mode = "vibe" /\ ~has_tags THEN "error: No valid tags"
    ELSE "candidates"

\* similar_node / vibe_node / hybrid_node: expansion first, then the search
NodeResult(attrs, faiss_index, mode, has_phrases, has_tags) ==
    IF expand_query_tags(attrs, has_phrases, has_tags) = "AttributeError"
    THEN "AttributeError"
    ELSE recommend(faiss_index, mode, has_tags)

\* the files step 11 main reads
Step11Required == {"parsed_intent.json", "game_vecs.npy", "tag_vecs.npy",
                   "index_maps.json"}

Step11Files == Step11Required \cup {"W_align.npy"}

\* step 11 main for an intent with seeds and phrases that resolve
Step11Result(missing, mode) ==
    IF missing \cap Step11Required # {} THEN "[ERROR] file missing"
    ELSE IF mode \in {"vibe", "hybrid"} /\ "W_align.npy" \in missing
         THEN "[ERROR] alignment matrix needed"
    ELSE "query_vector written"

LoadInit ==
    /\ ld_pc = "start"
    /\ ld_missing = {}
    /\ ld_attrs = {}
    /\ ld_faiss_index = "unset"
    /\ ld_query = [mode |-> "none", has_phrases |-> FALSE, has_tags |-> FALSE]
    /\ ld_result = "none"

\* VectorBasedRecommender.__init__ -> _load_data
LoadData ==
    /\ ld_pc = "start"
    /\ \E missing \in SUBSET Range(LoadOrder), err \in MissingIndexErrors :
          /\ Cardinality(missing) <= MaxMissing
          /\ ld_missing' = missing
          /\ IF FirstMissing(missing) = 1 /\ err = "RuntimeError"
             THEN /\ ld_attrs' = {}
                  /\ ld_faiss_index' = "unset"
                  /\ ld_result' = "RuntimeError"
                  /\ ld_pc' = "construction_failed"
             ELSE /\ ld_attrs' = AttributesAfterLoad(missing)
                  /\ ld_faiss_index' = IF missing = {} THEN "index" ELSE "None"
                  /\ ld_result' = IF missing = {} THEN "loaded" ELSE "warning printed"
                  /\ ld_pc' = "serving"
    /\ UNCHANGED ld_query
    /\ UNCHANGED loadOthers

\* one query of the app through similar_node, vibe_node or hybrid_node
QueryNode ==
    /\ ld_pc = "serving"
    /\ \E mode \in QueryModes, has_phrases \in BOOLEAN, has_tags \in BOOLEAN :
          /\ ld_query' = [mode |-> mode, has_phrases |-> has_phrases,
                          has_tags |-> has_tags]
          /\ ld_result' = NodeResult(ld_attrs, ld_faiss_index, mode,
                                     has_phrases, has_tags)
    /\ ld_pc' = "answered"
    /\ UNCHANGED <<ld_missing, ld_attrs, ld_faiss_index>>
    /\ UNCHANGED loadOthers

\* one run of step 11
Step11Main ==
    /\ ld_pc = "start"
    /\ \E missing \in SUBSET Step11Files, mode \in QueryModes :
          /\ Cardinality(missing) <= MaxMissing
          /\ ld_missing' = missing
          /\ ld_query' = [mode |-> mode, has_phrases |-> TRUE, has_tags |-> TRUE]
          /\ ld_result' = Step11Result(missing, mode)
    /\ ld_pc' = "step11_done"
    /\ UNCHANGED <<ld_attrs, ld_faiss_index>>
    /\ UNCHANGED loadOthers

LoadNext == LoadData \/ QueryNode \/ Step11Main

\* ========================================================================
\* Concurrent searches on one index (src/tmp/step12.py search_candidates,
\* src/st_app/rag/retriever.py recommend_*)
\* ========================================================================
Clients == 1..MaxClients

\* beam widths of the HNSW search: the value the index is built with
\* (index.hnsw.efSearch = ef_construction) and the --ef-search a caller passes
BuiltEfSearch == 3

EfSearchChoices == {1, 3}

\* the order in which the graph walk from the entry point reaches the rows
VisitOrder == <<3, 1, 2>>

SearchQueries == {<<1000, 0>>, <<600, 800>>}

\* index.search(query, 1): the walk keeps efSearch rows; the row of the
\* largest inner product among those it reached is returned
HnswSearch(query, efSearch) ==
    LET reached == {VisitOrder[i] : i \in 1..Min(efSearch, Len(VisitOrder))}
    IN  CHOOSE r \in reached :
            \A o \in reached :
                \/ Dot(query, game_vecs[r]) > Dot(query, game_vecs[o])
                \/ Dot(query, game_vecs[r]) = Dot(query, game_vecs[o]) /\ r <= o

SearchInit ==
    /\ ix_program = "none"
    /\ ix_efSearch = BuiltEfSearch
    /\ ix_clients = [c \in Clients |->
                       [pc |-> "idle", query |-> <<0, 0>>, ef_search |-> 0, result |-> 0]]

\* the queries arrive: in the app they share the recommender of
\* init_recommender; callers of search_candidates share the index they pass
SearchStart ==
    /\ ix_program = "none"
    /\ \E program \in {"app", "search_candidates"},
          qs \in [Clients -> SearchQueries], efs \in [Clients -> EfSearchChoices] :
          /\ ix_program' = program
          /\ ix_clients' = [c \in Clients |->
                [pc |-> "ready", query |-> qs[c],
                 ef_search |-> IF program = "app" THEN 0 ELSE efs[c],
                 result |-> 0]]
    /\ UNCHANGED ix_efSearch
    /\ UNCHANGED searchOthers

\* search_candidates: index.hnsw.efSearch = ef_search
SetEfSearch ==
    /\ ix_program = "search_candidates"
    /\ \E c \in Clients :
          /\ ix_clients[c].pc = "ready"
          /\ ix_efSearch' = ix_clients[c].ef_search
          /\ ix_clients' = [ix_clients EXCEPT ![c].pc = "param_set"]
    /\ UNCHANGED ix_program
    /\ UNCHANGED searchOthers

\* search_candidates: index.search(query_norm, top_n)
IndexSearch ==
    /\ ix_program = "search_candidates"
    /\ \E c \in Clients :
          /\ ix_clients[c].pc = "param_set"
          /\ ix_clients' = [ix_clients EXCEPT
                ![c].pc = "done",
                ![c].result = HnswSearch(ix_clients[c].query, ix_efSearch)]
    /\ UNCHANGED <<ix_program, ix_efSearch>>
    /\ UNCHANGED searchOthers

\* recommend_similar / recommend_vibe / recommend_hybrid:
\* self.faiss_index.search(query_vector, top_k)
RetrieverSearch ==
    /\ ix_program = "app"
    /\ \E c \in Clients :
          /\ ix_clients[c].pc = "ready"
          /\ ix_clients' = [ix_clients EXCEPT
                ![c].pc = "done",
                ![c].result = HnswSearch(ix_clients[c].query, ix_efSearch)]
    /\ UNCHANGED <<ix_program, ix_efSearch>>
    /\ UNCHANGED searchOthers

SearchNext == SearchStart \/ SetEfSearch \/ IndexSearch \/ RetrieverSearch

\* ========================================================================
\* Steps 2-4: the weight vector and the rows it is applied to
\* (src/FE/step2.py, src/FE/step3.py, src/step4.py main)
\* ========================================================================
WeightGames == {10, 20, 30}

\* mean s_round10_rec of a game in user_game_scores.csv, 0..10; NoScore
\* marks a game without reviews
NoScore == -1

MeanScores == {NoScore, 2 * Scale, 8 * Scale}

\* step 2: row r holds the r-th appid in the order of the tags file
RowOrders ==
    {s \in SeqsUpTo(WeightGames, MaxGames) :
        /\ s # <<>>
        /\ \A i, j \in 1..Len(s) : i # j => s[i] # s[j]}

\* the elements of a set of appids in ascending order
RECURSIVE SortedIds(_)
SortedIds(S) ==
    IF S = {} THEN <<>>
    ELSE LET m == CHOOSE x \in S : \A y \in S : x <= y
         IN  <<m>> \o SortedIds(S \ {m})

ScoredGames(scores) == {g \in WeightGames : scores[g] # NoScore}

\* step 3 normalize_scores with gamma 1: min-max over the games' means
MinMaxWeight(scores, g) ==
    LET vals == {scores[x] : x \in ScoredGames(scores)}
        lo == CHOOSE v \in vals : \A w \in vals : v <= w
        hi == CHOOSE v \in vals : \A w \in vals : v >= w
    IN  IF hi = lo THEN 0 ELSE RDiv((scores[g] - lo) * Scale, hi - lo)

\* step 3 main: one weight per scored game, in ascending appid order
Step3Weights(scores) ==
    LET ids == SortedIds(ScoredGames(scores))
    IN  [i \in 1..Len(ids) |-> MinMaxWeight(scores, ids[i])]

\* step 4 main, lines 133-167: the weights compute_ppmi_matrix receives
Step4Weights(row2appid, loaded, scores, csv_readable) ==
    IF Len(row2appid) = Len(loaded) THEN loaded
    ELSE IF ~csv_readable THEN [r \in 1..Len(row2appid) |-> Scale]
    ELSE LET ids == SortedIds(Range(row2appid))
         IN  [j \in 1..Len(ids) |->
                IF ids[j] \in ScoredGames(scores) THEN scores[ids[j]]
                ELSE Scale \div 2]

WeightsInit ==
    /\ w_pc = "idle"
    /\ w_row2appid = <<>>
    /\ w_scores = [g \in WeightGames |-> NoScore]
    /\ w_loaded = <<>>
    /\ w_game_weights = <<>>

\* steps 2 and 3 write the index maps and game_weight.npy
WeightsBuild ==
    /\ w_pc = "idle"
    /\ \E rows \in RowOrders, scores \in [WeightGames -> MeanScores] :
          /\ ScoredGames(scores) # {}
          /\ w_row2appid' = rows
          /\ w_scores' = scores
          /\ w_loaded' = Step3Weights(scores)
    /\ w_pc' = "built"
    /\ UNCHANGED w_game_weights
    /\ UNCHANGED weightsOthers

\* step 4 main up to the call of compute_ppmi_matrix
WeightsApply ==
    /\ w_pc = "built"
    /\ \E csv_readable \in BOOLEAN :
          w_game_weights' = Step4Weights(w_row2appid, w_loaded, w_scores, csv_readable)
    /\ w_pc' = "applied"
    /\ UNCHANGED <<w_row2appid, w_scores, w_loaded>>
    /\ UNCHANGED weightsOthers

WeightsNext == WeightsBuild \/ WeightsApply

\* ========================================================================
\* Vibe and hybrid query vectors of the two front ends (src/step11.py,
\* src/st_app/rag/retriever.py, src/step10.py)
\* ========================================================================
\* sentence embeddings of the phrases a query can carry (model.encode)
PhraseEmbedding == [p \in {"cozy", "dark", "bleak"} |->
                       CASE p = "cozy" -> <<1000, 0>>
                         [] p = "dark" -> <<0, 1000>>
                         [] p = "bleak" -> <<-1000, 0>>]

\* W_align.npy: text space to tag space
W_align == << <<600, 800>>, <<-800, 600>> >>

\* phrase_emb @ W_align
Project(emb) ==
    <<RDiv(emb[1] * W_align[1][1] + emb[2] * W_align[2][1], Scale),
      RDiv(emb[1] * W_align[1][2] + emb[2] * W_align[2][2], Scale)>>

ProjectedPhrases(phrases) ==
    [i \in 1..Len(phrases) |-> Project(PhraseEmbedding[phrases[i]])]

\* step 11 generate_vibe_query_vector: phrases only
generate_vibe_query_vector(phrases) ==
    IF phrases = <<>> THEN [status |-> "ValueError", query_vector |-> None]
    ELSE [status |-> "ok",
          query_vector |-> Normalize(MeanVector(ProjectedPhrases(phrases)))]

\* retriever recommend_vibe up to the search: tags only
recommend_vibe(targets, avoided) ==
    LET query_vector == create_query_vector(targets, avoided)
    IN  IF query_vector = Zero
        THEN [status |-> "error: No valid tags", query_vector |-> None]
        ELSE [status |-> "ok", query_vector |-> query_vector]

\* the 'weights' entry of a query: absent, or a dictionary that has or lacks
\* the key of each weight (similar / vibe in intent.json, similar_weight /
\* vibe_weight in parsed_json)
HybridWeightChoices == {
    [present |-> FALSE, has_similar |-> FALSE, similar |-> 0, has_vibe |-> FALSE, vibe |-> 0],
    [present |-> TRUE, has_similar |-> FALSE, similar |-> 0, has_vibe |-> FALSE, vibe |-> 0],
    [present |-> TRUE, has_similar |-> TRUE, similar |-> 700, has_vibe |-> TRUE, vibe |-> 300],
    [present |-> TRUE, has_similar |-> TRUE, similar |-> 700, has_vibe |-> FALSE, vibe |-> 0] }

\* step 10 parse_user_intent: intent_json.get('weights', {}), replaced by
\* 0.5 / 0.5 in hybrid mode when empty
ParsedWeights(w) ==
    IF ~w.present \/ (~w.has_similar /\ ~w.has_vibe)
    THEN [present |-> TRUE, has_similar |-> TRUE, similar |-> Scale \div 2,
          has_vibe |-> TRUE, vibe |-> Scale \div 2]
    ELSE w

\* step 11 generate_hybrid_query_vector
generate_hybrid_query_vector(similar_vector, vibe_vector, w) ==
    LET similar_weight == IF w.has_similar THEN w.similar ELSE Scale \div 2
        vibe_weight == IF w.has_vibe THEN w.vibe ELSE Scale \div 2
    IN  Normalize(AddVec(ScaleVec(similar_vector, similar_weight),
                         ScaleVec(vibe_vector, vibe_weight)))

\* step 11 main in hybrid mode, on the intent step 10 wrote
Step11HybridResult(games, phrases, w) ==
    LET similar == generate_similar_query_vector(games)
        vibe == generate_vibe_query_vector(phrases)
    IN  IF similar.status # "ok" THEN similar
        ELSE IF vibe.status # "ok" THEN vibe
        ELSE [status |-> "ok",
              query_vector |->
                 generate_hybrid_query_vector(similar.query_vector, vibe.query_vector,
                                              ParsedWeights(w))]

\* retriever recommend_hybrid up to the search
recommend_hybrid(games, targets, avoided, w) ==
    IF games = <<>> THEN [status |-> "IndexError", query_vector |-> None]
    ELSE IF TitleRows(games[1].title) = {}
    THEN [status |-> "error: Game not found", query_vector |-> None]
    ELSE IF w.present /\ (~w.has_similar \/ ~w.has_vibe)
    THEN [status |-> "KeyError", query_vector |-> None]
    ELSE LET base_game_vector == game_vecs[RetrieverSeedRows(<<games[1]>>)[1]]
             vibe_vector == create_query_vector(targets, avoided)
             similar_weight == IF w.present THEN w.similar ELSE Scale \div 2
             vibe_weight == IF w.present THEN w.vibe ELSE Scale \div 2
         IN  [status |-> "ok",
              query_vector |-> AddVec(ScaleVec(base_game_vector, similar_weight),
                                      ScaleVec(vibe_vector, vibe_weight))]

\* the queries of the model
ModePhrases == SeqsUpTo(DOMAIN PhraseEmbedding, MaxPhrases)

ModeTargets == SeqsUpTo(TagInfo, 1)

ModeAvoided == SeqsUpTo(QueryTagNames, 1)

HybridTargets == {<<>>, <<[name |-> "rpg", has_weight |-> TRUE, weight |-> 1000]>>,
                  <<[name |-> "indie", has_weight |-> TRUE, weight |-> 2000]>>}

NoQuery == [games |-> <<>>, phrases |-> <<>>, target_tags |-> <<>>,
            avoid_tags |-> <<>>,
            weights |-> [present |-> FALSE, has_similar |-> FALSE, similar |-> 0,
                         has_vibe |-> FALSE, vibe |-> 0]]

ModesInit ==
    /\ md_pc = "idle"
    /\ md_program = "none"
    /\ md_query = NoQuery
    /\ md_result = [status |-> "none", query_vector |-> None]

\* recommend_vibe of the retriever
RecommendVibe ==
    /\ md_pc = "idle"
    /\ \E ph \in ModePhrases, tt \in ModeTargets, av \in ModeAvoided :
          /\ md_query' = [NoQuery EXCEPT !.phrases = ph, !.target_tags = tt,
                                         !.avoid_tags = av]
          /\ md_result' = recommend_vibe(tt, av)
    /\ md_program' = "retriever"
    /\ md_pc' = "vibe"
    /\ UNCHANGED modesOthers

\* step 11 main in vibe mode
Step11Vibe ==
    /\ md_pc = "idle"
    /\ \E ph \in ModePhrases, tt \in ModeTargets, av \in ModeAvoided :
          /\ md_query' = [NoQuery EXCEPT !.phrases = ph, !.target_tags = tt,
                                         !.avoid_tags = av]
          /\ md_result' = generate_vibe_query_vector(ph)
    /\ md_program' = "step11"
    /\ md_pc' = "vibe"
    /\ UNCHANGED modesOthers

\* recommend_hybrid of the retriever
RecommendHybrid ==
    /\ md_pc = "idle"
    /\ \E gs \in SeqsUpTo(SeedRef, MaxSeeds), ph \in ModePhrases,
          tt \in HybridTargets, w \in HybridWeightChoices :
          /\ md_query' = [NoQuery EXCEPT !.games = gs, !.phrases = ph,
                                         !.target_tags = tt, !.weights = w]
          /\ md_result' = recommend_hybrid(gs, tt, <<>>, w)
    /\ md_program' = "retriever"
    /\ md_pc' = "hybrid"
    /\ UNCHANGED modesOthers

\* steps 10 and 11 in hybrid mode
Step11Hybrid ==
    /\ md_pc = "idle"
    /\ \E gs \in SeqsUpTo(SeedRef, MaxSeeds), ph \in ModePhrases,
          tt \in HybridTargets, w \in HybridWeightChoices :
          /\ md_query' = [NoQuery EXCEPT !.games = gs, !.phrases = ph,
                                         !.target_tags = tt, !.weights = w]
          /\ md_result' = Step11HybridResult(gs, ph, w)
    /\ md_program' = "step11"
    /\ md_pc' = "hybrid"
    /\ UNCHANGED modesOthers

ModesNext == RecommendVibe \/ Step11Vibe \/ RecommendHybrid \/ Step11Hybrid

\* ========================================================================
\* Step 12: candidate search (src/tmp/step12.py), and the index the app
\* searches (src/FE/create_faiss_index.py, src/st_app/rag/retriever.py)
\* ========================================================================
\* rows of game_vecs.npy: unit vectors and the zero vector step 6 leaves for
\* an item whose weighted average vanishes
ItemVectors == {<<1000, 0>>, <<0, 1000>>, <<-1000, 0>>, <<0, 0>>}

\* game_vecs.npy: between one and MaxIndexed rows
Catalogs == SeqsUpTo(ItemVectors, MaxIndexed) \ {<<>>}

\* index_maps['row2appid'] / idx_to_appid for 0-based row idx
CatalogAppid(idx) == 10 * (idx + 1)

\* --top-n / top_k
TopNs == {1, 3, 5}

IndexTypes == {"hnsw", "exact"}

\* query_vector.npy, and the query vector of recommend_vibe
Step12Queries == {<<1000, 0>>, <<600, 800>>}

\* build_faiss_index: IndexHNSWFlat (L2 metric) or IndexFlatIP; every row of
\* game_vecs is L2-normalized (a zero row stays zero) and added
build_faiss_index(gvecs, index_type) ==
    [metric |-> IF index_type = "hnsw" THEN "L2" ELSE "IP",
     vectors |-> [r \in 1..Len(gvecs) |-> Normalize(gvecs[r])]]

\* create_faiss_index: IndexFlatL2 over the rows of game_vecs.npy as they are
create_faiss_index(gvecs) == [metric |-> "L2", vectors |-> gvecs]

\* a built index before any vector is added
EmptyIndex == [metric |-> "none", vectors |-> <<>>]

\* the value index.search reports for row r: the squared L2 distance or the
\* inner product
IndexDistance(index, q, r) ==
    IF index.metric = "L2"
    THEN RDiv(Dot(SubVec(q, index.vectors[r]), SubVec(q, index.vectors[r])), Scale)
    ELSE RDiv(Dot(q, index.vectors[r]), Scale)

\* r comes before o in the result: nearer for L2, larger product for IP,
\* the lower row first among equals
RanksBefore(index, q, r, o) ==
    LET dr == IndexDistance(index, q, r)
        do == IndexDistance(index, q, o)
    IN  \/ (IF index.metric = "L2" THEN dr < do ELSE dr > do)
        \/ (dr = do /\ r <= o)

\* index.search(q, n): n (distance, label) pairs, best first; labels are
\* 0-based rows, and the slots the index cannot fill hold label -1 and the
\* worst distance
RECURSIVE IndexSearchRows(_, _, _, _)
IndexSearchRows(index, q, n, left) ==
    IF n = 0 THEN <<>>
    ELSE IF left = {}
    THEN <<[distance |-> IF index.metric = "L2" THEN Inf ELSE -Inf, label |-> -1]>>
         \o IndexSearchRows(index, q, n - 1, left)
    ELSE LET best == CHOOSE r \in left : \A o \in left : RanksBefore(index, q, r, o)
         IN  <<[distance |-> IndexDistance(index, q, best), label |-> best - 1]>>
             \o IndexSearchRows(index, q, n - 1, left \ {best})

\* search_candidates: the query is L2-normalized, then index.search
search_candidates(q, index, top_n) ==
    IndexSearchRows(index, Normalize(q), top_n, DOMAIN index.vectors)

\* step 12 main, lines 250-262: a hit is kept when idx < len(game_vecs);
\* its game_id is row2appid.get(idx, "unknown_<idx>")
Step12Candidates(hits, n_rows) ==
    LET kept == SelectSeq([i \in 1..Len(hits) |-> [pos |-> i, hit |-> hits[i]]],
                          LAMBDA h : h.hit.label < n_rows)
    IN  [i \in 1..Len(kept) |->
            [rank |-> kept[i].pos,
             game_id |-> IF kept[i].hit.label \in 0..(n_rows - 1)
                         THEN [known |-> TRUE, id |-> CatalogAppid(kept[i].hit.label)]
                         ELSE [known |-> FALSE, id |-> kept[i].hit.label],
             row_index |-> kept[i].hit.label,
             similarity |-> Scale - kept[i].hit.distance,
             distance |-> kept[i].hit.distance]]

\* recommend_vibe, lines 110-111: idx_to_appid[i] for every label returned;
\* a label that is not a row raises KeyError
RetrieverCandidates(hits, n_rows) ==
    IF \E i \in 1..Len(hits) : hits[i].label \notin 0..(n_rows - 1)
    THEN [status |-> "KeyError", candidates |-> <<>>]
    ELSE [status |-> "ok",
          candidates |-> [i \in 1..Len(hits) |-> CatalogAppid(hits[i].label)]]

CandInit ==
    /\ s12_pc = "idle"
    /\ s12_program = "none"
    /\ s12_game_vecs = <<>>
    /\ s12_query = <<0, 0>>
    /\ s12_top_n = 0
    /\ s12_index = EmptyIndex
    /\ s12_hits = <<>>
    /\ s12_candidates = <<>>
    /\ s12_app_result = [status |-> "none", candidates |-> <<>>]

\* the inputs of one run: the catalog, the query vector and top_n
CandStart ==
    /\ s12_pc = "idle"
    /\ \E c \in Catalogs, q \in Step12Queries, n \in TopNs,
          program \in {"step12", "app"} :
          /\ s12_game_vecs' = c
          /\ s12_query' = q
          /\ s12_top_n' = n
          /\ s12_program' = program
    /\ s12_pc' = "loaded"
    /\ UNCHANGED <<s12_index, s12_hits, s12_candidates, s12_app_result>>
    /\ UNCHANGED candOthers

\* step 12 main, line 241
Step12Build ==
    /\ s12_pc = "loaded"
    /\ s12_program = "step12"
    /\ \E t \in IndexTypes : s12_index' = build_faiss_index(s12_game_vecs, t)
    /\ s12_pc' = "indexed"
    /\ UNCHANGED <<s12_program, s12_game_vecs, s12_query, s12_top_n, s12_hits,
                   s12_candidates, s12_app_result>>
    /\ UNCHANGED candOthers

\* step 12 main, lines 244-291: the search and the candidates written
Step12Search ==
    /\ s12_pc = "indexed"
    /\ s12_program = "step12"
    /\ LET hits == search_candidates(s12_query, s12_index, s12_top_n)
       IN  /\ s12_hits' = hits
           /\ s12_candidates' = Step12Candidates(hits, Len(s12_game_vecs))
    /\ s12_pc' = "written"
    /\ UNCHANGED <<s12_program, s12_game_vecs, s12_query, s12_top_n, s12_index,
                   s12_app_result>>
    /\ UNCHANGED candOthers

\* create_faiss_index writes the index the recommender loads
CreateFaissIndex ==
    /\ s12_pc = "loaded"
    /\ s12_program = "app"
    /\ s12_index' = create_faiss_index(s12_game_vecs)
    /\ s12_pc' = "indexed"
    /\ UNCHANGED <<s12_program, s12_game_vecs, s12_query, s12_top_n, s12_hits,
                   s12_candidates, s12_app_result>>
    /\ UNCHANGED candOthers

\* recommend_vibe on that index: the query vector is searched as it is
RetrieverVibeSearch ==
    /\ s12_pc = "indexed"
    /\ s12_program = "app"
    /\ LET hits == IndexSearchRows(s12_index, s12_query, s12_top_n,
                                   DOMAIN s12_index.vectors)
       IN  /\ s12_hits' = hits
           /\ s12_app_result' = RetrieverCandidates(hits, Len(s12_game_vecs))
    /\ s12_pc' = "answered"
    /\ UNCHANGED <<s12_program, s12_game_vecs, s12_query, s12_top_n, s12_index,
                   s12_candidates>>
    /\ UNCHANGED candOthers

CandNext == CandStart \/ Step12Build \/ Step12Search \/ CreateFaissIndex
            \/ RetrieverVibeSearch

\* ========================================================================
\* Tag expansion before a recommendation (src/st_app/rag/retriever.py
\* expand_query_tags, src/st_app/rag/nodes/recommendation_nodes.py)
\* ========================================================================
\* self.idx_to_tag
idx_to_tag == [i \in 1..Len(rag_tag_vecs) |-> CHOOSE t \in DOMAIN tag_to_idx : tag_to_idx[t] = i]

\* the target_tags entries of a parsed query
ExpandTagInfo ==
    [name : QueryTagNames, has_weight : {FALSE}, weight : {0}]
    \cup {[name |-> "horror", has_weight |-> TRUE, weight |-> 2000]}

\* top_k of expand_query_tags; the nodes pass 5
ExpandTopKs == {1, 2, 5}

\* lines 51-54: the vectors of the target tags that are in the vocabulary
RECURSIVE TargetTagVectors(_)
TargetTagVectors(targets) ==
    IF targets = <<>> THEN <<>>
    ELSE (IF Head(targets).name \in DOMAIN tag_to_idx
          THEN <<rag_tag_vecs[tag_to_idx[Head(targets).name]]>>
          ELSE <<>>) \o TargetTagVectors(Tail(targets))

\* lines 42-54: the projected phrase vectors, then the target-tag vectors
ExpandQueryVectors(parsed_json) ==
    ProjectedPhrases(parsed_json.phrases) \o TargetTagVectors(parsed_json.target_tags)

\* line 59: cosine_similarity(final_query_vector, self.tag_vecs)
TagSimilarities(final_query_vector) ==
    [i \in 1..Len(rag_tag_vecs) |-> CosineSimilarity(final_query_vector, rag_tag_vecs[i])]

\* the tag indices by increasing similarity
RECURSIVE SortedIndicesAscending(_, _)
SortedIndicesAscending(similarities, left) ==
    IF left = {} THEN <<>>
    ELSE LET first == CHOOSE i \in left : \A o \in left :
                         \/ similarities[i] < similarities[o]
                         \/ (similarities[i] = similarities[o] /\ i <= o)
         IN  <<first>> \o SortedIndicesAscending(similarities, left \ {first})

\* line 60: np.argsort(similarities[0])[::-1], the stable ascending order
\* reversed: decreasing similarity, the higher index first among equals
RECURSIVE SortedIndices(_, _)
SortedIndices(similarities, left) ==
    IF left = {} THEN <<>>
    ELSE LET first == CHOOSE i \in left : \A o \in left :
                         \/ similarities[i] > similarities[o]
                         \/ (similarities[i] = similarities[o] /\ i >= o)
         IN  <<first>> \o SortedIndices(similarities, left \ {first})

\* lines 62-67: walk sorted_indices until top_k tags are collected, skipping
\* the names already among the target tags
RECURSIVE CollectExpanded(_, _, _, _, _)
CollectExpanded(sorted_indices, similarities, existing_tags, top_k, expanded_tags) ==
    IF sorted_indices = <<>> \/ Len(expanded_tags) >= top_k THEN expanded_tags
    ELSE LET idx == Head(sorted_indices)
             tag_name == idx_to_tag[idx]
         IN  CollectExpanded(Tail(sorted_indices), similarities, existing_tags, top_k,
                 IF tag_name \notin existing_tags
                    /\ \A j \in 1..Len(expanded_tags) : expanded_tags[j].name # tag_name
                 THEN Append(expanded_tags,
                             \* round(float(weight), 4) keeps every digit of the
                             \* fixed-point similarity
                             [name |-> tag_name, has_weight |-> TRUE,
                              weight |-> similarities[idx]])
                 ELSE expanded_tags)

\* expand_query_tags(parsed_json, top_k)
ExpandQueryTags(parsed_json, top_k) ==
    LET query_vectors == ExpandQueryVectors(parsed_json)
        existing_tags == {parsed_json.target_tags[i].name :
                             i \in 1..Len(parsed_json.target_tags)}
        similarities == TagSimilarities(MeanVector(query_vectors))
        sorted_indices == SortedIndices(similarities, DOMAIN rag_tag_vecs)
    IN  IF query_vectors = <<>> THEN parsed_json
        ELSE [parsed_json EXCEPT !.target_tags =
                 parsed_json.target_tags
                 \o CollectExpanded(sorted_indices, similarities, existing_tags, top_k, <<>>)]

NoParsedJson == [phrases |-> <<>>, target_tags |-> <<>>, avoid_tags |-> <<>>]

ExpandInit ==
    /\ ex_pc = "idle"
    /\ ex_parsed_json = NoParsedJson
    /\ ex_top_k = 0
    /\ ex_expanded = NoParsedJson
    /\ ex_result = [status |-> "none", query_vector |-> None]

\* a parsed query reaches a recommendation node
ExpandRequest ==
    /\ ex_pc = "idle"
    /\ \E ph \in SeqsUpTo(DOMAIN PhraseEmbedding, MaxPhrases),
          tt \in SeqsUpTo(ExpandTagInfo, MaxQueryTags),
          av \in SeqsUpTo(QueryTagNames, 1) :
          ex_parsed_json' = [phrases |-> ph, target_tags |-> tt, avoid_tags |-> av]
    /\ \E n \in ExpandTopKs : ex_top_k' = n
    /\ ex_pc' = "parsed"
    /\ UNCHANGED <<ex_expanded, ex_result>>
    /\ UNCHANGED expandOthers

\* vibe_node, lines 10-11: state['parsed_json'] = expand_query_tags(...)
ExpandNode ==
    /\ ex_pc = "parsed"
    /\ ex_expanded' = ExpandQueryTags(ex_parsed_json, ex_top_k)
    /\ ex_pc' = "expanded"
    /\ UNCHANGED <<ex_parsed_json, ex_top_k, ex_result>>
    /\ UNCHANGED expandOthers

\* vibe_node, lines 12-14: recommend_vibe(expanded)
ExpandedVibe ==
    /\ ex_pc = "expanded"
    /\ ex_result' = recommend_vibe(ex_expanded.target_tags, ex_expanded.avoid_tags)
    /\ ex_pc' = "recommended"
    /\ UNCHANGED <<ex_parsed_json, ex_top_k, ex_expanded>>
    /\ UNCHANGED expandOthers

ExpandNext == ExpandRequest \/ ExpandNode \/ ExpandedVibe

\* ========================================================================
\* The online pipeline runner (src/run_online_pipeline.py) and the exit
\* behaviour of the stage scripts it starts (src/step10.py, src/step11.py,
\* src/tmp/step12.py, src/tmp/step13.py, src/step14.py, src/tmp/step15.py)
\* ========================================================================
\* the stages in the order main starts them, lines 71-93
StageOrder == <<10, 11, 12, 13, 14, 15>>

Stages == Range(StageOrder)

\* the artifacts of outputs/ a stage reads, named by the stage that writes
\* them: parsed_intent.json (10), query_vector.npy (11), candidates.json
\* (12), scored_candidates.json (13), diverse_recommendations.json (14)
StageInputs == [s \in Stages |->
    CASE s = 10 -> {}
      [] s = 11 -> {10}
      [] s = 12 -> {11}
      [] s = 13 -> {12, 10}
      [] s = 14 -> {13}
      [] s = 15 -> {14, 10}]

\* how a stage script ends: it writes its artifact; it prints [ERROR] and
\* returns from main without writing (a missing file, an invalid intent, an
\* empty candidate pool); or an exception escapes main
StageOutcomes == {"ok", "abort", "crash"}

\* the exit status of the script: main returning, with or without output,
\* ends the process with 0; an uncaught exception with 1
ExitStatus(outcome) == IF outcome = "crash" THEN 1 ELSE 0

\* the outcomes open to a stage: with an input artifact missing, the
\* existence check at the top of main prints [ERROR] and returns
PossibleOutcomes(stage, files) ==
    IF \E a \in StageInputs[stage] : files[a] = "absent"
    THEN {"abort"}
    ELSE StageOutcomes

\* run_command that reports success whatever the exit status
RunCommandIgnoresStatus(status) == TRUE

\* run_command: subprocess.run(check=True) raises CalledProcessError on a
\* non-zero exit status; True without it, False with it
run_command(status) == status = 0

\* outputs/ before the run: each artifact absent or left by an earlier run
OutputStates == [Stages -> {"absent", "stale"}]

\* the stage after s, 0 after the last
NextStage(s) == IF s = 15 THEN 0 ELSE s + 1

RunnerInit ==
    /\ rp_pc = "idle"
    /\ rp_stage = 0
    /\ rp_files = [s \in Stages |-> "absent"]
    /\ rp_started = <<>>
    /\ rp_exits = <<>>
    /\ rp_outcomes = <<>>
    /\ rp_stale_reads = {}
    /\ rp_return = -1

\* main, lines 55-69: a missing input file returns 1 before any stage
RunnerStart ==
    /\ rp_pc = "idle"
    /\ \E files \in OutputStates : rp_files' = files
    /\ \E input_exists \in BOOLEAN :
          IF input_exists
          THEN /\ rp_pc' = "running" /\ rp_stage' = 10 /\ UNCHANGED rp_return
          ELSE /\ rp_pc' = "returned" /\ rp_return' = 1 /\ UNCHANGED rp_stage
    /\ UNCHANGED <<rp_started, rp_exits, rp_outcomes, rp_stale_reads>>
    /\ UNCHANGED runnerOthers

\* lines 69 and 88 read args.lambda, which the interpreter rejects when it
\* compiles the file: the process ends with status 1 and no stage starts
RunnerRejected ==
    /\ rp_pc = "idle"
    /\ rp_pc' = "returned"
    /\ rp_return' = 1
    /\ UNCHANGED <<rp_stage, rp_files, rp_started, rp_exits, rp_outcomes, rp_stale_reads>>
    /\ UNCHANGED runnerOthers

\* one "if not run_command(...): return 1" of main, with the stage script
\* it runs to its end
RunStage ==
    /\ rp_pc = "running"
    /\ rp_stage \in Stages
    /\ \E outcome \in PossibleOutcomes(rp_stage, rp_files) :
          /\ rp_started' = Append(rp_started, rp_stage)
          /\ rp_outcomes' = Append(rp_outcomes, outcome)
          /\ rp_exits' = Append(rp_exits, ExitStatus(outcome))
          /\ rp_files' = IF outcome = "ok"
                         THEN [rp_files EXCEPT ![rp_stage] = "fresh"]
                         ELSE rp_files
          /\ rp_stale_reads' =
                IF outcome = "ok" /\ \E a \in StageInputs[rp_stage] : rp_files[a] = "stale"
                THEN rp_stale_reads \cup {rp_stage}
                ELSE rp_stale_reads
          /\ IF run_command(ExitStatus(outcome))
             THEN /\ rp_stage' = NextStage(rp_stage)
                  /\ rp_pc' = IF rp_stage = 15 THEN "finishing" ELSE "running"
                  /\ UNCHANGED rp_return
             ELSE /\ rp_pc' = "returned"
                  /\ rp_return' = 1
                  /\ UNCHANGED rp_stage
    /\ UNCHANGED runnerOthers

\* main, lines 95-115: 0 when outputs/final_recommendations.json exists
RunnerFinish ==
    /\ rp_pc = "finishing"
    /\ rp_return' = IF rp_files[15] # "absent" THEN 0 ELSE 1
    /\ rp_pc' = "returned"
    /\ UNCHANGED <<rp_stage, rp_files, rp_started, rp_exits, rp_outcomes, rp_stale_reads>>
    /\ UNCHANGED runnerOthers

RunnerNext == RunnerStart \/ RunnerRejected \/ RunStage \/ RunnerFinish

\* ========================================================================
\* Step 10: intent validation, and step 11 on the intent it wrote
\* (src/step10.py, src/step11.py, src/FE/step2.py)
\* ========================================================================
\* df["appid"].unique() of step 2: the catalog ids in row order
IntentCatalogs == {<<10, 20, 30>>, <<2, 10>>, <<1, 0, 40>>}

\* index_maps['appid2row'] of step 2 (rows are 0-based)
Appid2Row(catalog) ==
    [a \in Range(catalog) |-> (CHOOSE i \in 1..Len(catalog) : catalog[i] = a) - 1]

\* index_maps['row2appid'] of step 2
Row2Appid(catalog) == [i \in 0..(Len(catalog) - 1) |-> catalog[i + 1]]

\* the 'games' a user intent can name
IntentGameIds == {0, 1, 10, 99}

IntentModes == {"similar", "vibe", "hybrid", "random"}

\* validate_mode: the mode when it is one of the three, else ValueError
validate_mode(mode) ==
    IF mode \in {"similar", "vibe", "hybrid"} THEN "ok" ELSE "ValueError"

\* validate_games, lines 53-60: valid_game_ids are the keys of row2appid
ValidatedGames(games, index_maps) ==
    SelectSeq(games, LAMBDA game_id : game_id \in DOMAIN index_maps.row2appid)

\* validate_games: ValueError when no id is left
validate_games(games, index_maps) ==
    IF ValidatedGames(games, index_maps) = <<>>
    THEN [status |-> "ValueError: No valid game IDs found", games |-> <<>>]
    ELSE [status |-> "ok", games |-> ValidatedGames(games, index_maps)]

NoIntent == [mode |-> "none", games |-> <<>>, phrases |-> <<>>]

\* parse_user_intent: the mode, then the games, whatever the mode is
parse_user_intent(intent_json, index_maps) ==
    IF validate_mode(intent_json.mode) # "ok"
    THEN [status |-> "ValueError: Invalid mode", intent |-> NoIntent]
    ELSE LET games == validate_games(intent_json.games, index_maps)
         IN  IF games.status # "ok"
             THEN [status |-> games.status, intent |-> NoIntent]
             ELSE [status |-> "ok",
                   intent |-> [intent_json EXCEPT !.games = games.games]]

\* step 11 generate_similar_query_vector, lines 65-76: ValueError when no
\* seed id is a key of appid2row
SimilarVectorStatus(games, index_maps) ==
    IF \E i \in 1..Len(games) : games[i] \in DOMAIN index_maps.appid2row
    THEN "ok" ELSE "ValueError: no valid seed game"

\* step 11 generate_vibe_query_vector, lines 108-109
VibeVectorStatus(phrases) ==
    IF phrases = <<>> THEN "ValueError: no phrases" ELSE "ok"

\* step 11 main, lines 204-248, with W_align.npy in place
Step11Status(intent, index_maps) ==
    CASE intent.mode = "similar" -> SimilarVectorStatus(intent.games, index_maps)
      [] intent.mode = "vibe" -> VibeVectorStatus(intent.phrases)
      [] intent.mode = "hybrid" ->
            IF SimilarVectorStatus(intent.games, index_maps) # "ok"
            THEN SimilarVectorStatus(intent.games, index_maps)
            ELSE VibeVectorStatus(intent.phrases)
      [] OTHER -> "unknown mode"

IntentInit ==
    /\ it_pc = "idle"
    /\ it_index_maps = [appid2row |-> <<>>, row2appid |-> <<>>]
    /\ it_intent_json = NoIntent
    /\ it_parsed = [status |-> "none", intent |-> NoIntent]
    /\ it_written = FALSE
    /\ it_step11 = "none"

\* user_intent.json and index_maps.json as step 10 finds them
IntentPosted ==
    /\ it_pc = "idle"
    /\ \E catalog \in IntentCatalogs :
          it_index_maps' = [appid2row |-> Appid2Row(catalog),
                            row2appid |-> Row2Appid(catalog)]
    /\ \E mode \in IntentModes, games \in SeqsUpTo(IntentGameIds, MaxSeeds),
          phrases \in SeqsUpTo(DOMAIN PhraseEmbedding, MaxPhrases) :
          it_intent_json' = [mode |-> mode, games |-> games, phrases |-> phrases]
    /\ it_pc' = "posted"
    /\ UNCHANGED <<it_parsed, it_written, it_step11>>
    /\ UNCHANGED intentOthers

\* step 10 main, lines 219-249: parse, and write parsed_intent.json unless
\* parse_user_intent raised
Step10Main ==
    /\ it_pc = "posted"
    /\ LET user_intent == parse_user_intent(it_intent_json, it_index_maps)
       IN  /\ it_parsed' = user_intent
           /\ it_written' = (user_intent.status = "ok")
           /\ it_pc' = IF user_intent.status = "ok" THEN "parsed" ELSE "rejected"
    /\ UNCHANGED <<it_index_maps, it_intent_json, it_step11>>
    /\ UNCHANGED intentOthers

\* step 11 main on the parsed_intent.json step 10 wrote
Step11OnParsed ==
    /\ it_pc = "parsed"
    /\ it_step11' = Step11Status(it_parsed.intent, it_index_maps)
    /\ it_pc' = "vector"
    /\ UNCHANGED <<it_index_maps, it_intent_json, it_parsed, it_written>>
    /\ UNCHANGED intentOthers

IntentNext == IntentPosted \/ Step10Main \/ Step11OnParsed

\* ========================================================================
\* The candidate lists of the retriever (src/st_app/rag/retriever.py
\* recommend_similar, recommend_hybrid)
\* ========================================================================
\* top_k of a call; the nodes pass 200, the catalog of the model has three
\* rows
RetrieveTopKs == {1, 2, 3}

\* the candidate list of recommend_hybrid without the filter on the base game
HybridCandidatesUnfiltered(games, query_vector, top_k) ==
    LET indices == NearestRows(query_vector, top_k + 1, Rows)
    IN  IF \E i \in 1..Len(indices) : indices[i] \notin DOMAIN idx_to_appid
        THEN [status |-> "KeyError", candidates |-> <<>>]
        ELSE [status |-> "ok",
              candidates |-> Take([i \in 1..Len(indices) |-> idx_to_appid[indices[i]]], top_k)]

\* recommend_hybrid, lines 123-125: search top_k + 1 rows, drop the base
\* game, keep the first top_k; idx_to_appid[-1] raises KeyError
recommend_hybrid_candidates(games, query_vector, top_k) ==
    LET game_appid == idx_to_appid[RetrieverSeedRows(<<games[1]>>)[1]]
        indices == NearestRows(query_vector, top_k + 1, Rows)
        hits == SelectSeq(indices, LAMBDA r : idx_to_appid[r] # game_appid)
    IN  IF \E i \in 1..Len(indices) : indices[i] \notin DOMAIN idx_to_appid
        THEN [status |-> "KeyError", candidates |-> <<>>]
        ELSE [status |-> "ok",
              candidates |-> Take([i \in 1..Len(hits) |-> idx_to_appid[hits[i]]], top_k)]

\* recommend_hybrid(parsed_json, top_k): the query vector, then the search
RecommendHybridResult(parsed_json, top_k) ==
    LET query == recommend_hybrid(parsed_json.games, parsed_json.target_tags,
                                  parsed_json.avoid_tags, parsed_json.weights)
    IN  IF query.status # "ok"
        THEN [status |-> query.status, candidates |-> <<>>]
        ELSE recommend_hybrid_candidates(parsed_json.games, query.query_vector, top_k)

\* recommend_similar(parsed_json, top_k): what the caller gets
RecommendSimilarResult(parsed_json, top_k) ==
    LET result == recommend_similar(parsed_json.games, top_k)
    IN  [status |-> result.status, candidates |-> result.candidates]

RetrieveInit ==
    /\ rt_pc = "idle"
    /\ rt_program = "none"
    /\ rt_query = NoQuery
    /\ rt_top_k = 0
    /\ rt_result = [status |-> "none", candidates |-> <<>>]

\* a parsed query reaches the retriever
RetrieveRequest ==
    /\ rt_pc = "idle"
    /\ \E gs \in SeqsUpTo(SeedRef, MaxSeeds), tt \in HybridTargets,
          w \in HybridWeightChoices :
          rt_query' = [NoQuery EXCEPT !.games = gs, !.target_tags = tt, !.weights = w]
    /\ \E n \in RetrieveTopKs : rt_top_k' = n
    /\ rt_pc' = "requested"
    /\ UNCHANGED <<rt_program, rt_result>>
    /\ UNCHANGED retrieveOthers

\* similar_node: recommend_similar(parsed_json, top_k)
RetrieveSimilar ==
    /\ rt_pc = "requested"
    /\ rt_result' = RecommendSimilarResult(rt_query, rt_top_k)
    /\ rt_program' = "similar"
    /\ rt_pc' = "done"
    /\ UNCHANGED <<rt_query, rt_top_k>>
    /\ UNCHANGED retrieveOthers

\* hybrid_node: recommend_hybrid(parsed_json, top_k)
RetrieveHybrid ==
    /\ rt_pc = "requested"
    /\ rt_result' = RecommendHybridResult(rt_query, rt_top_k)
    /\ rt_program' = "hybrid"
    /\ rt_pc' = "done"
    /\ UNCHANGED <<rt_query, rt_top_k>>
    /\ UNCHANGED retrieveOthers

RetrieveNext == RetrieveRequest \/ RetrieveSimilar \/ RetrieveHybrid

\* ========================================================================
\* Specifications
\* ========================================================================
Init == MmrInit /\ ScoreInit /\ SynthInit /\ PpmiInit /\ QualityInit /\ VibeInit /\ SimilarInit /\ ConstraintInit /\ LoadInit /\ SearchInit /\ WeightsInit /\ ModesInit /\ CandInit /\ ExpandInit /\ RunnerInit /\ IntentInit /\ RetrieveInit

SpecMMR == Init /\ [][MmrNext]_vars

SpecScore == Init /\ [][ScoreNext]_vars

SpecSynth == Init /\ [][SynthNext]_vars

SpecPPMI == Init /\ [][PpmiNext]_vars

SpecQuality == Init /\ [][QualityNext]_vars

SpecVibe == Init /\ [][VibeNext]_vars

SpecSimilar == Init /\ [][SimilarNext]_vars

SpecConstraint == Init /\ [][ConstraintNext]_vars

SpecLoad == Init /\ [][LoadNext]_vars

SpecSearch == Init /\ [][SearchNext]_vars

SpecWeights == Init /\ [][WeightsNext]_vars

SpecModes == Init /\ [][ModesNext]_vars

SpecCand == Init /\ [][CandNext]_vars

SpecExpand == Init /\ [][ExpandNext]_vars

SpecRunner == Init /\ [][RunnerNext]_vars

SpecIntent == Init /\ [][IntentNext]_vars

SpecRetrieve == Init /\ [][RetrieveNext]_vars

\* ------------------------------------------------------------------------
\* Properties of the MMR selector
\* ------------------------------------------------------------------------
\* the positions (entries of the candidate list) the returned list holds
OutputPositions == [i \in 1..Len(diverse_recommendations) |-> diverse_recommendations[i].pos]

NoDuplicates(s) == \A i, j \in 1..Len(s) : i # j => s[i] # s[j]

C2_LambdaOneIsRelevanceOrder ==
    (mmr_pc = "done" /\ lambda_param = Scale) =>
        /\ \A i, j \in 1..Len(diverse_recommendations) :
              i < j => diverse_recommendations[i].final >= diverse_recommendations[j].final
        /\ \A c \in 1..Len(candidates) :
              c \notin Range(OutputPositions) =>
                  \A i \in 1..Len(diverse_recommendations) :
                      diverse_recommendations[i].final >= candidates[c].final

\* lambda = 1.0, and the two candidates returned are copies of one direction
\* (similarity 1.0) while a less relevant, less similar candidate is left out
C2_Witness ==
    /\ mmr_pc = "done"
    /\ lambda_param = Scale
    /\ Len(candidates) = 3
    /\ Len(diverse_recommendations) = 2
    /\ LET sim == SimilarityMatrix(candidates)
           a == diverse_recommendations[1].pos
           b == diverse_recommendations[2].pos
       IN  /\ sim[a][b] = Scale
           /\ \E c \in 1..3 : /\ c \notin {a, b}
                              /\ sim[c][a] < Scale
                              /\ candidates[c].final < candidates[b].final

\* ------------------------------------------------------------------------
\* Properties of the candidate scorer
\* ------------------------------------------------------------------------
InUnitInterval(x) == 0 <= x /\ x <= Scale

NonNegativeWeights ==
    /\ score_weights.alpha >= 0 /\ score_weights.beta >= 0
    /\ score_weights.gamma >= 0 /\ score_weights.delta >= 0
    /\ rr_weights.tag_match >= 0 /\ rr_weights.novelty >= 0

FactorScoresInUnitInterval ==
    sc_pc \in {"factors", "done"} =>
        \A i \in 1..Len(candidate_game_ids) :
            /\ InUnitInterval(tag_scores[i])
            /\ InUnitInterval(novelty_scores[i])
            /\ InUnitInterval(recency_scores[i])
            /\ InUnitInterval(popularity_scores[i])

FinalScoresInUnitInterval ==
    /\ sc_pc = "done" =>
          \A i \in 1..Len(scored_candidates) : InUnitInterval(scored_candidates[i].final)
    /\ sc_pc = "reranked" =>
          \A i \in 1..Len(candidates_df) :
              /\ InUnitInterval(candidates_df[i].tag_match_score)
              /\ InUnitInterval(candidates_df[i].novelty_score)
              /\ InUnitInterval(candidates_df[i].final_score)

\* C3: for every non-empty candidate set and whatever weights the caller
\* supplies, each per-factor score and the final score of every scored
\* candidate lies in [0,1].
C3_ScoresInUnitInterval == FactorScoresInUnitInterval /\ FinalScoresInUnitInterval

\* what the code does guarantee: the bound holds when no weight is negative
C3_BoundedForNonNegativeWeights == NonNegativeWeights => C3_ScoresInUnitInterval

\* ------------------------------------------------------------------------
\* Properties of the item vector synthesizer
\* ------------------------------------------------------------------------
\* the rows of X the run synthesized, and the tag columns of a row
SynthRows == 1..Len(syn_game_vecs)

SynthTags(i) == SortedSeq(GameTagRows(Len(tag_vecs))[i])

\* the weighted average of row i before its normalization
SynthRawAverage(i) ==
    AverageNotNormalized(SynthTags(i), tag_vecs,
                         CompensatedWeights(softmax_weights[i], syn_alpha))

Abs(x) == IF x >= 0 THEN x ELSE -x

\* L2 norm 1 to the resolution of the fixed-point vectors (half a percent of
\* the squared norm)
HasUnitNorm(v) == Abs(Dot(v, v) - Scale * Scale) <= 5 * Scale

\* C4: every synthesized vector of an item with at least one tag has L2 norm
\* 1, after the weighted average and after steering, for any tag vectors
\* and any effect coefficients.
C4_UnitNormForEveryTaggedItem ==
    syn_pc = "done" =>
        \A i \in SynthRows :
            SynthTags(i) # <<>> => HasUnitNorm(avg_vecs[i]) /\ HasUnitNorm(syn_game_vecs[i])

\* C4 (amended): an item with at least one tag whose weighted tag average is
\* not the zero vector has a vector of L2 norm 1 after the weighted average
\* and after steering; when the average is the zero vector (zero or
\* cancelling tag vectors) the item vector is the zero vector at both points.
C4_UnitNormUnlessAverageIsZero ==
    syn_pc = "done" =>
        \A i \in SynthRows :
            SynthTags(i) # <<>> =>
                IF SynthRawAverage(i) # Zero
                THEN HasUnitNorm(avg_vecs[i]) /\ HasUnitNorm(syn_game_vecs[i])
                ELSE avg_vecs[i] = Zero /\ syn_game_vecs[i] = Zero

\* a two-tag item whose average is neither zero nor of unit length before the
\* normalization, synthesized with steering on, next to a tagged item whose
\* weighted tag average is the zero vector
C4_Witness ==
    /\ syn_pc = "done"
    /\ syn_eta > 0
    /\ \E i \in SynthRows :
          /\ Len(SynthTags(i)) = 2
          /\ SynthRawAverage(i) # Zero
          /\ ~HasUnitNorm(SynthRawAverage(i))
          /\ HasUnitNorm(syn_game_vecs[i])
    /\ \E i \in SynthRows : SynthTags(i) # <<>> /\ SynthRawAverage(i) = Zero

\* C7: for every item with at least one tag and every kappa > 0 the softmax
\* weights of its tags, before count compensation, sum to 1 (to within the
\* rounding of the weights: half a unit of resolution per tag) and each lies
\* in [0,1].
C7_SoftmaxWeightsSumToOne ==
    syn_pc = "done" =>
        \A i \in SynthRows :
            SynthTags(i) # <<>> =>
                /\ Len(softmax_weights[i]) = Len(SynthTags(i))
                /\ 2 * Abs(SeqSum(softmax_weights[i]) - Scale) <= Len(softmax_weights[i])
                /\ \A j \in 1..Len(softmax_weights[i]) : InUnitInterval(softmax_weights[i][j])

\* a two-tag item with unequal softmax weights at kappa = 0.5, with count
\* compensation on (the compensated weights no longer sum to 1)
C7_Witness ==
    /\ syn_pc = "done"
    /\ syn_kappa = 500
    /\ syn_alpha > 0
    /\ \E i \in SynthRows :
          /\ Len(softmax_weights[i]) = 2
          /\ softmax_weights[i][1] > softmax_weights[i][2]
          /\ SeqSum(CompensatedWeights(softmax_weights[i], syn_alpha)) < Scale - 100

\* the items with exactly two tags, as <<row, tag A, tag B>> with the clipped
\* effect of A above that of B
TwoTagItems ==
    {t \in SynthRows \X (1..Len(tag_vecs)) \X (1..Len(tag_vecs)) :
        /\ GameTagRows(Len(tag_vecs))[t[1]] = {t[2], t[3]}
        /\ t[2] # t[3]
        /\ BetaRelu(tag_beta)[t[2]] > BetaRelu(tag_beta)[t[3]]}

\* position of tag a among the ascending tag columns of row i
TagPos(i, a) == CHOOSE j \in 1..Len(SynthTags(i)) : SynthTags(i)[j] = a

WeightOf(i, a) == softmax_weights[i][TagPos(i, a)]

\* C8: for an item with tags {A,B} whose clipped effects satisfy
\* beta_A > beta_B and kappa = 1, the softmax weight of A is strictly greater
\* than that of B and the synthesized vector has strictly higher cosine
\* similarity to A's tag vector than to B's.
C8_HigherEffectTagIsCloser ==
    (syn_pc = "done" /\ syn_kappa = Scale) =>
        \A t \in TwoTagItems :
            /\ WeightOf(t[1], t[2]) > WeightOf(t[1], t[3])
            /\ CosineSimilarity(syn_game_vecs[t[1]], tag_vecs[t[2]])
                  > CosineSimilarity(syn_game_vecs[t[1]], tag_vecs[t[3]])

\* the two tag vectors have the same non-zero length and differ
ComparableTagVectors(a, b) ==
    /\ Dot(tag_vecs[a], tag_vecs[a]) > 0
    /\ Dot(tag_vecs[a], tag_vecs[a]) = Dot(tag_vecs[b], tag_vecs[b])
    /\ tag_vecs[a] # tag_vecs[b]

\* C8 (amended): for an item with tags {A,B} whose clipped effects satisfy
\* beta_A > beta_B and kappa = 1, the softmax weight of A is strictly greater
\* than that of B; when moreover the two tag vectors have the same non-zero
\* length and are different and steering is off (eta = 0), the synthesized
\* vector has strictly higher cosine similarity to A's tag vector than to B's.
C8_HigherEffectTagIsCloserForComparableTags ==
    (syn_pc = "done" /\ syn_kappa = Scale) =>
        \A t \in TwoTagItems :
            /\ WeightOf(t[1], t[2]) > WeightOf(t[1], t[3])
            /\ (ComparableTagVectors(t[2], t[3]) /\ syn_eta = 0) =>
                  CosineSimilarity(syn_game_vecs[t[1]], tag_vecs[t[2]])
                     > CosineSimilarity(syn_game_vecs[t[1]], tag_vecs[t[3]])

\* the scenario of the specification: beta_A = 2, beta_B below zero (clipped
\* to 0), kappa = 1, two different unit tag vectors, no steering
C8_Witness ==
    /\ syn_pc = "done"
    /\ syn_kappa = Scale
    /\ syn_eta = 0
    /\ \E t \in TwoTagItems :
          /\ tag_beta[t[2]] = 2000
          /\ tag_beta[t[3]] < 0
          /\ ComparableTagVectors(t[2], t[3])
          /\ CosineSimilarity(syn_game_vecs[t[1]], tag_vecs[t[2]]) < Scale
          /\ CosineSimilarity(syn_game_vecs[t[1]], tag_vecs[t[3]]) > 0

\* ------------------------------------------------------------------------
\* Properties of the PPMI matrix
\* ------------------------------------------------------------------------
\* the dense view of the sparse matrix: a pair without a stored entry is 0
PpmiAt(i, j) == IF <<i, j>> \in DOMAIN ppmi_matrix THEN ppmi_matrix[<<i, j>>] ELSE 0

\* C5: every entry of the PPMI matrix is >= 0 for all tag pairs; a pair with
\* negative PMI is clipped to 0, and a pair with zero co-occurrence or a tag
\* with zero marginal probability has no stored entry.
C5_PpmiNonNegative ==
    ppmi_pc = "done" =>
        \A i, j \in PpmiTags :
            /\ PpmiAt(i, j) >= 0
            /\ (C[i][j] > 0 /\ Pmi(C, i, j) < 0) => PpmiAt(i, j) = 0
            /\ (C[i][j] > 0 /\ Pmi(C, i, j) > 0) => PpmiAt(i, j) = Pmi(C, i, j)
            /\ (C[i][j] = 0 \/ RowSums(C)[i] = 0 \/ ColSums(C)[j] = 0) =>
                  <<i, j>> \notin DOMAIN ppmi_matrix

\* a matrix with a stored positive entry, a co-occurring pair whose PMI is
\* negative, and a tag with zero marginal probability
C5_Witness ==
    /\ ppmi_pc = "done"
    /\ \E i, j \in PpmiTags : PpmiAt(i, j) > 0
    /\ \E i, j \in PpmiTags : C[i][j] > 0 /\ Pmi(C, i, j) < 0
    /\ \E i \in PpmiTags : RowSums(C)[i] = 0 /\ TotalCooccurrences(C) > 0

\* ------------------------------------------------------------------------
\* Properties of the quality weight builder
\* ------------------------------------------------------------------------
\* the output rows of the item of row i
ItemRows(i) == {j \in 1..Len(df_score) : df_score[j].appid = df_score[i].appid}

RECURSIVE SumRank2(_)
SumRank2(S) ==
    IF S = {} THEN 0
    ELSE LET j == CHOOSE x \in S : TRUE IN df_score[j].rank2 + SumRank2(S \ {j})

\* the item of row i has exactly the users a, b, c with durations 10, 20, 30
IsScenarioItem(a, b, c) ==
    /\ ItemRows(a) = {a, b, c}
    /\ Cardinality({a, b, c}) = 3
    /\ df_score[a].playtime_forever = 10
    /\ df_score[b].playtime_forever = 20
    /\ df_score[c].playtime_forever = 30

\* C6: within each item the users are ranked by duration, tied users sharing
\* the average of their ranks (ranks follow the durations, equal durations
\* have equal ranks, and the ranks of n users sum to n(n+1)/2); the
\* percentile is (rank-1)/(n-1), and 1.0 for an item with exactly one user;
\* the base score is the integer in 0..10 nearest to percentile*10; for
\* durations [10,20,30] the percentiles are [0, 0.5, 1.0] and the base
\* scores [0,5,10].
C6_PercentileRankAndBaseScore ==
    q_pc = "done" =>
        /\ \A i \in 1..Len(df_score) :
              LET n == Cardinality(ItemRows(i))
                  r == df_score[i]
              IN  /\ r.cnt = n
                  /\ SumRank2(ItemRows(i)) = n * (n + 1)
                  /\ \A j \in ItemRows(i) :
                        /\ df_score[j].playtime_forever < r.playtime_forever
                              => df_score[j].rank2 < r.rank2
                        /\ df_score[j].playtime_forever = r.playtime_forever
                              => df_score[j].rank2 = r.rank2
                  /\ n = 1 => r.ptile = Scale
                  /\ n > 1 => Abs(r.ptile * 2 * (n - 1) - (r.rank2 - 2) * Scale) <= n - 1
                  /\ r.s_round10 \in 0..10
                  /\ 2 * Abs(r.s_round10 * Scale - r.ptile * 10) <= Scale
        /\ \A a, b, c \in 1..Len(df_score) :
              IsScenarioItem(a, b, c) =>
                  /\ <<df_score[a].ptile, df_score[b].ptile, df_score[c].ptile>>
                        = <<0, Scale \div 2, Scale>>
                  /\ <<df_score[a].s_round10, df_score[b].s_round10, df_score[c].s_round10>>
                        = <<0, 5, 10>>

\* the scenario: one item, three users with durations 10, 20, 30
C6_Witness ==
    /\ q_pc = "done"
    /\ Len(df_score) = 3
    /\ IsScenarioItem(1, 2, 3)
    /\ <<df_score[1].rank2, df_score[2].rank2, df_score[3].rank2>> = <<2, 4, 6>>

\* tied users and a single-user item in one table
C6_TieWitness ==
    /\ q_pc = "done"
    /\ \E i, j \in 1..Len(df_score) :
          /\ i # j
          /\ j \in ItemRows(i)
          /\ df_score[i].rank2 = 3 /\ df_score[j].rank2 = 3
    /\ \E i \in 1..Len(df_score) : ItemRows(i) = {i} /\ df_score[i].ptile = Scale

\* ------------------------------------------------------------------------
\* Properties of the vibe query vector
\* ------------------------------------------------------------------------
\* the positions of tag t among the target tags, and among the avoided tags
TargetPositions(t) == {i \in 1..Len(vq_target_tags) : vq_target_tags[i].name = t}

AvoidPositions(t) == {i \in 1..Len(vq_avoid_tags) : vq_avoid_tags[i] = t}

\* a sequence without the entries at the positions P
RECURSIVE Without(_, _)
Without(s, P) ==
    IF s = <<>> THEN <<>>
    ELSE Without(SubSeq(s, 1, Len(s) - 1), P)
         \o (IF Len(s) \in P THEN <<>> ELSE <<s[Len(s)]>>)

\* the query vector of the same query with tag t taken out of both lists
VectorWithoutTag(t) ==
    create_query_vector(Without(vq_target_tags, TargetPositions(t)),
                        Without(vq_avoid_tags, AvoidPositions(t)))

\* tag t is a vocabulary tag listed once as a target and once as avoided
TargetAndAvoided(t) ==
    /\ t \in DOMAIN tag_to_idx
    /\ Cardinality(TargetPositions(t)) = 1
    /\ Cardinality(AvoidPositions(t)) = 1

WeightOfTarget(t) == GetWeight(vq_target_tags[CHOOSE i \in TargetPositions(t) : TRUE])

\* C9: a vocabulary tag that is both a target tag with weight w and an
\* avoided tag contributes (w - 1) times its tag vector to the vibe query
\* vector: the vector equals that of the query without the tag plus
\* (w - 1) * tagVector, and with w = 1 the two vectors are equal.
C9_TargetAndAvoidedTagNetsWeightMinusOne ==
    vq_pc = "done" =>
        \A t \in QueryTagNames :
            TargetAndAvoided(t) =>
                /\ vq_vector = AddVec(VectorWithoutTag(t),
                                      ScaleVec(rag_tag_vecs[tag_to_idx[t]],
                                               WeightOfTarget(t) - Scale))
                /\ WeightOfTarget(t) = Scale => vq_vector = VectorWithoutTag(t)

\* a query whose target tags are rpg at weight 1 and indie at weight 2 and
\* which avoids rpg: the vector is that of indie alone
C9_Witness ==
    /\ vq_pc = "done"
    /\ TargetAndAvoided("rpg")
    /\ WeightOfTarget("rpg") = Scale
    /\ Cardinality(TargetPositions("indie")) = 1
    /\ AvoidPositions("indie") = {}
    /\ vq_vector # Zero
    /\ vq_vector = ScaleVec(rag_tag_vecs[tag_to_idx["indie"]], WeightOfTarget("indie"))

\* a tag that is a target at weight 2 and avoided leaves one tag vector
C9_WitnessWeightTwo ==
    /\ vq_pc = "done"
    /\ TargetAndAvoided("indie")
    /\ WeightOfTarget("indie") = 2 * Scale
    /\ vq_vector = rag_tag_vecs[tag_to_idx["indie"]]

\* ------------------------------------------------------------------------
\* Properties of similar mode
\* ------------------------------------------------------------------------
\* the catalog rows of the seeds found by id (step 11) and by title
\* (retriever), in seed order; a seed not in the catalog has no row
SeedRowsById ==
    LET found == SelectSeq(seed_games,
                           LAMBDA g : \E r \in Rows : games_df[r].appid = g.id)
    IN  [i \in 1..Len(found) |-> CHOOSE r \in Rows : games_df[r].appid = found[i].id]

SeedRowsByTitle ==
    LET found == SelectSeq(seed_games,
                           LAMBDA g : \E r \in Rows : Lower[games_df[r].game_title] = Lower[g.title])
    IN  [i \in 1..Len(found) |->
            CHOOSE r \in Rows : Lower[games_df[r].game_title] = Lower[found[i].title]]

\* the mean of the item vectors of the given rows
MeanOfRows(rows) ==
    <<RDiv(SeqSum([i \in 1..Len(rows) |-> game_vecs[rows[i]][1]]), Len(rows)),
      RDiv(SeqSum([i \in 1..Len(rows) |-> game_vecs[rows[i]][2]]), Len(rows))>>

\* the retriever's part: the vector is the mean over the seeds found; when
\* none is found the result is an error without vector or candidates and the
\* node is left with an empty candidate list and no vector
RetrieverSimilarAsClaimed ==
    node_pc # "idle" =>
        IF SeedRowsByTitle = <<>>
        THEN /\ rag_result.status = "error"
             /\ rag_result.error \in {"No seed games", "Seed games not found"}
             /\ rag_result.query_vector = None /\ rag_result.candidates = <<>>
             /\ node_pc = "done"
             /\ node_query_vector = None /\ node_candidate_appids = <<>>
        ELSE /\ rag_result.status # "error"
             /\ rag_result.status = "ok" =>
                   /\ rag_result.query_vector = MeanOfRows(SeedRowsByTitle)
                   /\ node_query_vector = MeanOfRows(SeedRowsByTitle)
             /\ sim_top_k + Len(SeedRowsByTitle) <= Len(game_vecs) =>
                   rag_result.status = "ok"

\* step 11 when no seed resolves: ValueError, nothing saved
Step11FailsWithoutSeeds ==
    (s11_status # "idle" /\ SeedRowsById = <<>>) =>
        (s11_status = "ValueError" /\ s11_query_vector = None)

\* C10: in similar mode the query vector is the mean of the vectors of the
\* seed items found in the catalog, seeds not in the catalog being skipped;
\* if no seed resolves the query fails with a 'no seed items' error and
\* neither a query vector nor a candidate list is produced.
C10_QueryVectorIsMeanOfSeeds ==
    /\ RetrieverSimilarAsClaimed
    /\ Step11FailsWithoutSeeds
    /\ (s11_status # "idle" /\ SeedRowsById # <<>>) =>
          (s11_status = "ok" /\ s11_query_vector = MeanOfRows(SeedRowsById))

\* C10 (amended): as C10, except that the step 11 builder L2-normalizes the
\* mean when it is not the zero vector; the retriever uses the mean itself.
C10_QueryVectorIsMeanNormalizedInStep11 ==
    /\ RetrieverSimilarAsClaimed
    /\ Step11FailsWithoutSeeds
    /\ (s11_status # "idle" /\ SeedRowsById # <<>>) =>
          /\ s11_status = "ok"
          /\ s11_query_vector = Normalize(MeanOfRows(SeedRowsById))
          /\ MeanOfRows(SeedRowsById) # Zero => HasUnitNorm(s11_query_vector)
          /\ MeanOfRows(SeedRowsById) = Zero => s11_query_vector = Zero

\* two seeds found and one skipped: both front ends have answered, step 11
\* with the normalized mean, the retriever with the mean
C10_Witness ==
    /\ Len(seed_games) = 2
    /\ Len(SeedRowsById) = 1 /\ Len(SeedRowsByTitle) = 1
    /\ s11_status = "ok" /\ node_pc = "done" /\ rag_result.status = "ok"
    /\ node_query_vector = game_vecs[SeedRowsByTitle[1]]
    /\ node_candidate_appids # <<>>

\* two different seeds found: the mean is shorter than a unit vector
C10_WitnessTwoSeeds ==
    /\ Len(SeedRowsById) = 2
    /\ s11_status = "ok" /\ node_pc = "done" /\ rag_result.status = "ok"
    /\ s11_query_vector # node_query_vector
    /\ ~HasUnitNorm(node_query_vector)

\* no seed resolves: step 11 raised and the node holds nothing
C10_WitnessNoSeed ==
    /\ seed_games # <<>>
    /\ SeedRowsById = <<>> /\ SeedRowsByTitle = <<>>
    /\ s11_status = "ValueError"
    /\ node_pc = "done" /\ rag_result.status = "error"


C11_WitnessApp ==
    /\ app_pc = "responded"
    /\ app_candidate_appids = <<>>
    /\ app_final_results.kind = "no_game_found"


\* ------------------------------------------------------------------------
\* a game with the attributes of game_metadata violates constraint c
Violates(g, c) ==
    \/ c.key = "price_max" /\ game_metadata[g].price > c.num
    \/ c.key = "price_min" /\ game_metadata[g].price < c.num
    \/ c.key = "platform" /\ c.str \notin game_metadata[g].platforms
    \/ c.key = "language" /\ c.str \notin game_metadata[g].languages
    \/ c.key = "age_rating" /\ game_metadata[g].age_rating > c.num

\* the candidates of s that violate none of the constraints, in the order of s
RECURSIVE CompliantCandidates(_, _)
CompliantCandidates(s, cons) ==
    IF s = <<>> THEN <<>>
    ELSE IF \E c \in cons : Violates(Head(s), c)
         THEN CompliantCandidates(Tail(s), cons)
         ELSE <<Head(s)>> \o CompliantCandidates(Tail(s), cons)

HasKnownAttributes(s) == \A i \in 1..Len(s) : s[i] \in DOMAIN game_metadata

C18_FilterWithMetadataKeepsTheCompliant ==
    (hc_pc = "filtered" /\ hc_game_data = game_metadata
        /\ HasKnownAttributes(hc_candidates))
      => filtered_candidates = CompliantCandidates(hc_candidates, hc_constraints)

\* a call with metadata removed one candidate of two and kept the other
C18_WitnessWithMetadata ==
    /\ hc_pc = "filtered" /\ hc_game_data = game_metadata
    /\ hc_candidates = <<2, 1>>
    /\ filtered_candidates = <<1>>


\* ------------------------------------------------------------------------
\* C12: after a load in which an artifact file is missing, every query
\* operation reports the error: none raises an unrelated exception and none
\* returns results; step 11 likewise writes no query vector.
C12_MissingArtifactIsReported ==
    /\ (ld_pc = "answered" /\ ld_missing # {})
          => ld_result = "error: Recommender not initialized"
    /\ (ld_pc = "step11_done"
            /\ \/ ld_missing \cap Step11Required # {}
               \/ ld_missing # {} /\ ld_query.mode # "similar")
          => ld_result # "query_vector written"

\* the part that holds: no query of the app returns candidates after a load
\* with a missing file
C12_NoResultsFromPartialLoad ==
    (ld_pc = "answered" /\ ld_missing # {}) => ld_result # "candidates"

C12_WitnessAttributeError ==
    /\ ld_pc = "answered"
    /\ ld_missing = {"tag_vecs.npy"}
    /\ ld_result = "AttributeError"


\* ------------------------------------------------------------------------
\* the result a query gets when it runs alone on the index as built
AloneResult(c) ==
    HnswSearch(ix_clients[c].query,
               IF ix_program = "app" THEN BuiltEfSearch ELSE ix_clients[c].ef_search)

\* C13: no query operation writes the shared index or its search
\* parameters, and under every interleaving each finished query has the
\* result it would have alone.
C13_QueriesNeverWriteArtifacts ==
    /\ ix_efSearch = BuiltEfSearch
    /\ \A c \in Clients :
          ix_clients[c].pc = "done" => ix_clients[c].result = AloneResult(c)

\* the part that holds: the queries of the app leave the index as built and
\* each gets its own result
C13_AppQueriesAreIndependent ==
    ix_program = "app" =>
        /\ ix_efSearch = BuiltEfSearch
        /\ \A c \in Clients :
              ix_clients[c].pc = "done" => ix_clients[c].result = AloneResult(c)

\* two callers of search_candidates on one index: the first one searched
\* with the beam width of the second and got another row than alone
C13_WitnessInterference ==
    /\ ix_program = "search_candidates"
    /\ ix_clients[1].pc = "done"
    /\ ix_clients[1].result # AloneResult(1)

C13_WitnessApp ==
    /\ ix_program = "app"
    /\ \A c \in Clients : ix_clients[c].pc = "done"
    /\ ix_clients[1].result # ix_clients[2].result


\* ------------------------------------------------------------------------
\* the quality weight step 3 computed for a game
QualityWeightOf(g) ==
    LET ids == SortedIds(ScoredGames(w_scores))
    IN  w_loaded[CHOOSE i \in 1..Len(ids) : ids[i] = g]

MismatchFallbackTaken == Len(w_row2appid) # Len(w_loaded)

\* C14: in every run of the PPMI builder, also after the item-count-mismatch
\* fallback, the weight vector has one entry per row of the incidence matrix
\* and the weight of row r is the quality weight of the game at row r, or
\* 0.5 when that game has none.
C14_WeightsAlignedWithRows ==
    w_pc = "applied" =>
        /\ Len(w_game_weights) = Len(w_row2appid)
        /\ \A r \in 1..Len(w_row2appid) :
              w_game_weights[r] =
                 IF w_row2appid[r] \in ScoredGames(w_scores)
                 THEN QualityWeightOf(w_row2appid[r])
                 ELSE Scale \div 2

\* the part that holds: one weight per row
C14_OneWeightPerRow ==
    w_pc = "applied" => Len(w_game_weights) = Len(w_row2appid)

\* the fallback ran on rows that are not in ascending appid order
C14_WitnessFallback ==
    /\ w_pc = "applied"
    /\ MismatchFallbackTaken
    /\ w_row2appid = <<20, 10>>
    /\ w_scores[10] = 8 * Scale /\ w_scores[20] = NoScore
    /\ w_game_weights = <<8 * Scale, Scale \div 2>>


\* ------------------------------------------------------------------------
\* cosine similarity of two rows of game_vecs
RowCosine == [a \in Rows |-> [b \in Rows |->
                 CosineSimilarity(game_vecs[a], game_vecs[b])]]

\* lambda * relevance + (1 - lambda) * (1 - max similarity to the candidates
\* of prev), in units of 1 / Scale^2; the max similarity of an empty prev is 0
MmrValue(i, prev) ==
    LET sims == {RowCosine[candidates[i].row_index][candidates[j].row_index] : j \in prev}
        max_sim == IF prev = {} THEN 0
                   ELSE CHOOSE m \in sims : \A x \in sims : m >= x
    IN  lambda_param * candidates[i].final + (Scale - lambda_param) * (Scale - max_sim)

SelectedBefore(t) == {selected_indices[j] : j \in 1..(t - 1)}

UnselectedBefore(t) == (1..Len(candidates)) \ SelectedBefore(t)

\* C15: every MMR step appends an unselected candidate of maximal
\* lambda*relevance + (1-lambda)*(1 - max similarity to the selected ones),
\* the earliest in input order among equal maxima; the output lists the
\* candidates in selection order and mmr_rank is the position.
C15_StepSelectsFirstMaximum ==
    /\ mmr_pc \in {"loop", "done"} =>
          \A t \in 1..Len(selected_indices) :
              LET s == selected_indices[t]
              IN  /\ s \in UnselectedBefore(t)
                  /\ \A o \in UnselectedBefore(t) :
                        /\ MmrValue(s, SelectedBefore(t)) >= MmrValue(o, SelectedBefore(t))
                        /\ MmrValue(s, SelectedBefore(t)) = MmrValue(o, SelectedBefore(t))
                              => s <= o
    /\ (mmr_pc = "done" /\ candidates # <<>>) =>
          /\ Len(diverse_recommendations) = Len(selected_indices)
          /\ \A i \in 1..Len(diverse_recommendations) :
                /\ diverse_recommendations[i].pos = selected_indices[i]
                /\ diverse_recommendations[i].mmr_rank = i

\* a finished selection whose second step had two equal maxima
C15_Witness ==
    /\ mmr_pc = "done"
    /\ Len(diverse_recommendations) >= 2
    /\ \E o \in UnselectedBefore(2) :
          /\ o # selected_indices[2]
          /\ MmrValue(o, SelectedBefore(2)) = MmrValue(selected_indices[2], SelectedBefore(2))
    /\ lambda_param = 500


\* ------------------------------------------------------------------------
\* the sum the vibe mode is said to build: weighted target tags, plus the
\* projected phrases, minus the avoided tags
ClaimedVibeSum ==
    AddVec(SubtractAvoided(AddTargets(Zero, md_query.target_tags, 1),
                           md_query.avoid_tags, 1),
           SumVector(ProjectedPhrases(md_query.phrases)))

\* C16: in vibe mode the query vector is the sum of the weighted target-tag
\* vectors and the aligned phrase vectors minus the avoided-tag vectors
\* (as it is, or L2-normalized); when that sum is the zero vector the query
\* fails instead.
C16_VibeVectorIsTagsPlusPhrasesMinusAvoided ==
    md_pc = "vibe" =>
        IF ClaimedVibeSum = Zero
        THEN md_result.status # "ok"
        ELSE /\ md_result.status = "ok"
             /\ md_result.query_vector \in {ClaimedVibeSum, Normalize(ClaimedVibeSum)}

\* the part that holds: without phrases the retriever builds that sum and
\* reports a zero sum as an error
C16_RetrieverWithoutPhrases ==
    (md_pc = "vibe" /\ md_program = "retriever" /\ md_query.phrases = <<>>) =>
        IF ClaimedVibeSum = Zero
        THEN md_result.status = "error: No valid tags"
        ELSE md_result.status = "ok" /\ md_result.query_vector = ClaimedVibeSum

\* the retriever rejected a query whose only signal is a phrase
C16_WitnessPhraseOnly ==
    /\ md_pc = "vibe" /\ md_program = "retriever"
    /\ md_query.phrases = <<"cozy">> /\ md_query.target_tags = <<>>
    /\ md_result.status = "error: No valid tags"

\* step 11 left a target tag out of the vector
C16_WitnessStep11IgnoresTags ==
    /\ md_pc = "vibe" /\ md_program = "step11"
    /\ md_query.phrases = <<"cozy">>
    /\ Len(md_query.target_tags) = 1 /\ md_query.target_tags[1].name = "indie"
    /\ md_result.query_vector = Normalize(Project(PhraseEmbedding["cozy"]))

\* ------------------------------------------------------------------------
\* the similar-mode vector of the front end that ran: the mean of all seeds
\* it resolves, L2-normalized in step 11
SimilarModeVector ==
    IF md_program = "step11"
    THEN LET vs == Step11SeedVectors(md_query.games)
         IN  Normalize(<<RDiv(SeqSum([i \in 1..Len(vs) |-> vs[i][1]]), Len(vs)),
                         RDiv(SeqSum([i \in 1..Len(vs) |-> vs[i][2]]), Len(vs))>>)
    ELSE LET rs == RetrieverSeedRows(md_query.games)
         IN  <<RDiv(SeqSum([i \in 1..Len(rs) |-> game_vecs[rs[i]][1]]), Len(rs)),
               RDiv(SeqSum([i \in 1..Len(rs) |-> game_vecs[rs[i]][2]]), Len(rs))>>

\* the vibe-mode vector of the front end that ran
VibeModeVector ==
    IF md_program = "step11"
    THEN Normalize(MeanVector(ProjectedPhrases(md_query.phrases)))
    ELSE SubtractAvoided(AddTargets(Zero, md_query.target_tags, 1),
                         md_query.avoid_tags, 1)

SeedsResolve ==
    IF md_program = "step11" THEN Step11SeedVectors(md_query.games) # <<>>
    ELSE RetrieverSeedRows(md_query.games) # <<>>

WeightsSuppliedOrNone ==
    md_query.weights.has_similar = md_query.weights.has_vibe

ClaimedHybridVector ==
    LET w == md_query.weights
        simWeight == IF w.has_similar THEN w.similar ELSE Scale \div 2
        vibeWeight == IF w.has_vibe THEN w.vibe ELSE Scale \div 2
        sum == <<RDiv(simWeight * SimilarModeVector[1], Scale)
                    + RDiv(vibeWeight * VibeModeVector[1], Scale),
                 RDiv(simWeight * SimilarModeVector[2], Scale)
                    + RDiv(vibeWeight * VibeModeVector[2], Scale)>>
    IN  Normalize(sum)

HybridCase ==
    /\ md_pc = "hybrid"
    /\ SeedsResolve
    /\ WeightsSuppliedOrNone
    /\ md_program = "step11" => md_query.phrases # <<>>

\* C17: in hybrid mode the query vector is simWeight*similarVector +
\* vibeWeight*vibeVector, renormalized, similarVector being the mean of all
\* resolved seeds and both weights 0.5 when the caller supplies none.
C17_HybridIsWeightedSumRenormalized ==
    HybridCase =>
        /\ md_result.status = "ok"
        /\ md_result.query_vector = ClaimedHybridVector

\* the part that holds: steps 10 and 11
C17_Step11HybridAsClaimed ==
    (HybridCase /\ md_program = "step11") =>
        /\ md_result.status = "ok"
        /\ md_result.query_vector = ClaimedHybridVector

\* the retriever combined the first of two resolved seeds only and did not
\* renormalize
C17_WitnessRetriever ==
    /\ HybridCase /\ md_program = "retriever"
    /\ Len(RetrieverSeedRows(md_query.games)) = 2
    /\ md_result.status = "ok"
    /\ md_result.query_vector # ClaimedHybridVector

C17_WitnessStep11Defaults ==
    /\ HybridCase /\ md_program = "step11"
    /\ ~md_query.weights.present
    /\ Len(Step11SeedVectors(md_query.games)) = 2
    /\ md_result.query_vector # Zero


\* ------------------------------------------------------------------------
\* alpha*tagMatch + beta*novelty + gamma*recency + delta*popularity of
\* candidate i of the batch step 13 scored
BatchSum(i) ==
    RDiv(score_weights.alpha * tag_scores[i] + score_weights.beta * novelty_scores[i]
            + score_weights.gamma * recency_scores[i]
            + score_weights.delta * popularity_scores[i], Scale)

BatchMaximum ==
    CHOOSE m \in {BatchSum(i) : i \in 1..Len(candidate_game_ids)} :
        \A i \in 1..Len(candidate_game_ids) : m >= BatchSum(i)

\* C19: for every non-empty batch the final score is the weighted sum
\* divided by the batch maximum of that sum, so the best candidate of the
\* batch has final score exactly 1.0; this for the scorer of step 13 and
\* for the re-ranker of the app.
C19_FinalIsSumOverBatchMaximum ==
    /\ sc_pc = "done" =>
          /\ BatchMaximum # 0
          /\ \A i \in 1..Len(candidate_game_ids) :
                final_scores[i] = RDiv(BatchSum(i) * Scale, BatchMaximum)
          /\ \E i \in 1..Len(candidate_game_ids) : final_scores[i] = Scale
          /\ scored_candidates[1].final = Scale
    /\ (sc_pc = "reranked" /\ candidates_df # <<>>) =>
          candidates_df[1].final_score = Scale

\* the part that holds: step 13 divides by the batch maximum when it is positive
C19_Step13NormalizesPositiveBatches ==
    (sc_pc = "done" /\ BatchMaximum > 0) =>
          /\ \A i \in 1..Len(candidate_game_ids) :
                final_scores[i] = RDiv(BatchSum(i) * Scale, BatchMaximum)
          /\ scored_candidates[1].final = Scale

\* the re-ranker returned a batch whose best final score is below 1.0
C19_WitnessReranker ==
    /\ sc_pc = "reranked"
    /\ Len(candidates_df) = 2
    /\ rr_weights = [tag_match |-> 8, novelty |-> 2]
    /\ candidates_df[1].final_score < Scale
    /\ candidates_df[1].final_score > 0

\* step 13 left a batch unnormalized: all weights zero
C19_WitnessZeroBatch ==
    /\ sc_pc = "done"
    /\ BatchMaximum = 0
    /\ \A i \in 1..Len(final_scores) : final_scores[i] = 0

C19_WitnessNormalized ==
    /\ sc_pc = "done"
    /\ Len(candidate_game_ids) = 2
    /\ BatchMaximum > 0 /\ BatchMaximum # Scale
    /\ scored_candidates[1].final = Scale
    /\ scored_candidates[2].final < Scale


\* ------------------------------------------------------------------------
\* the vote factor of a record: 1 + alpha_pos for a recommending user, else
\* 1 - alpha_neg (fixed) or 1 - alpha_neg * s / 10 (linear), not below 0
ClaimedVoteFactor(row) ==
    LET raw == IF row.voted_up = 1 THEN Scale + penalty.alpha_pos
               ELSE IF penalty.penalty_mode = "fixed" THEN Scale - penalty.alpha_neg
               ELSE Scale - RDiv(penalty.alpha_neg * row.s_round10, 10)
    IN  IF raw < 0 THEN 0 ELSE raw

\* C20: the per-record score is clip(s * voteFactor, 0, 10) with the vote
\* factor of the record's vote and penalty mode, floored at 0; every
\* per-record score lies in [0, 10] whatever alpha_pos and alpha_neg are.
C20_RecordScoreIsClippedProduct ==
    q_pc = "done" =>
        \A i \in 1..Len(df_score) :
            LET row == df_score[i]
                product == row.s_round10 * ClaimedVoteFactor(row)
            IN  /\ row.vote_factor = ClaimedVoteFactor(row)
                /\ row.s_round10_rec =
                      (IF product < 0 THEN 0
                       ELSE IF product > 10 * Scale THEN 10 * Scale ELSE product)
                /\ row.s_round10_rec >= 0
                /\ row.s_round10_rec <= 10 * Scale

\* a non-recommending record whose unfloored factor is negative, and a
\* recommending one whose product exceeds 10
C20_Witness ==
    /\ q_pc = "done"
    /\ \E i \in 1..Len(df_score) :
          /\ df_score[i].voted_up = 0 /\ df_score[i].s_round10 = 10
          /\ Scale - RDiv(penalty.alpha_neg * 10, 10) < 0
          /\ df_score[i].vote_factor = 0 /\ df_score[i].s_round10_rec = 0
    /\ \E i \in 1..Len(df_score) :
          /\ df_score[i].voted_up = 1 /\ df_score[i].s_round10 >= 5
          /\ df_score[i].vote_factor = 3 * Scale
          /\ df_score[i].s_round10_rec = 10 * Scale


\* ------------------------------------------------------------------------
\* the hits of a finished search that are rows of the catalog
RowHits == {i \in 1..Len(s12_hits) : s12_hits[i].label \in 0..(Len(s12_game_vecs) - 1)}

HitVector(i) == s12_game_vecs[s12_hits[i].label + 1]

SearchFinished == s12_pc \in {"written", "answered"}

\* no zero vector was added and none is among the hits
ZeroVectorsExcluded ==
    /\ \A r \in DOMAIN s12_index.vectors : s12_index.vectors[r] # <<0, 0>>
    /\ \A i \in RowHits : HitVector(i) # <<0, 0>>

\* a zero vector is never placed before a non-zero one: every non-zero row
\* of the catalog comes before each hit that is a zero row
ZeroVectorsLast ==
    \A i \in RowHits :
        HitVector(i) = <<0, 0>> =>
            \A r \in DOMAIN s12_game_vecs :
                s12_game_vecs[r] # <<0, 0>> =>
                    \E j \in RowHits : j < i /\ s12_hits[j].label = r - 1

\* C21: the retrieval index contains only non-zero item vectors: a zero item
\* vector is never added to the index and never returned as a candidate, or
\* else it counts as maximally dissimilar to every query, i.e. it is returned
\* only after every non-zero item.
C21_ZeroVectorsExcludedOrMaximallyDissimilar ==
    SearchFinished => (ZeroVectorsExcluded \/ ZeroVectorsLast)

\* what holds instead: every row of game_vecs is in the index, zero or not
C21_EveryRowIsIndexed ==
    s12_pc \in {"indexed", "written", "answered"} =>
        Len(s12_index.vectors) = Len(s12_game_vecs)

\* step 12 returned the zero row ahead of the item opposite to the query
C21_WitnessZeroRowFirst ==
    /\ s12_pc = "written"
    /\ s12_game_vecs = << <<-1000, 0>>, <<0, 0>> >>
    /\ s12_query = <<1000, 0>>
    /\ s12_top_n = 1
    /\ Len(s12_candidates) = 1 /\ s12_candidates[1].row_index = 1

\* the app's index returned the zero row as well
C21_WitnessApp ==
    /\ s12_pc = "answered"
    /\ s12_game_vecs = << <<-1000, 0>>, <<0, 0>> >>
    /\ s12_query = <<1000, 0>>
    /\ s12_top_n = 1
    /\ s12_app_result = [status |-> "ok", candidates |-> <<CatalogAppid(1)>>]

\* ------------------------------------------------------------------------
\* C25: every candidate emitted by the candidate search refers to a valid
\* catalog row: 0 <= row_index < number of item vectors, game_id is the
\* catalog id of that row, and no row is emitted twice, also when top_n
\* exceeds the number of indexed items.
C25_CandidatesAreValidRows ==
    s12_pc = "written" =>
        /\ \A i \in 1..Len(s12_candidates) :
              /\ s12_candidates[i].row_index >= 0
              /\ s12_candidates[i].row_index < Len(s12_game_vecs)
              /\ s12_candidates[i].game_id =
                    [known |-> TRUE, id |-> 10 * (s12_candidates[i].row_index + 1)]
        /\ \A i, j \in 1..Len(s12_candidates) :
              i # j => s12_candidates[i].row_index # s12_candidates[j].row_index

\* what holds: when top_n does not exceed the number of rows, step 12 emits
\* top_n distinct valid rows
C25_ValidWhenTopNFits ==
    (s12_pc = "written" /\ s12_top_n <= Len(s12_game_vecs)) =>
        /\ Len(s12_candidates) = s12_top_n
        /\ \A i \in 1..Len(s12_candidates) :
              /\ s12_candidates[i].row_index \in 0..(Len(s12_game_vecs) - 1)
              /\ s12_candidates[i].game_id.known
        /\ \A i, j \in 1..Len(s12_candidates) :
              i # j => s12_candidates[i].row_index # s12_candidates[j].row_index

\* top_n = 3 on a one-row catalog: the candidate of row -1 is emitted twice
C25_WitnessMinusOne ==
    /\ s12_pc = "written"
    /\ Len(s12_game_vecs) = 1 /\ s12_top_n = 3
    /\ Len(s12_candidates) = 3
    /\ s12_candidates[2].row_index = -1 /\ s12_candidates[3].row_index = -1
    /\ s12_candidates[2].game_id = [known |-> FALSE, id |-> -1]

\* the same search in the app raises KeyError instead of answering
C25_WitnessKeyError ==
    /\ s12_pc = "answered"
    /\ Len(s12_game_vecs) = 1 /\ s12_top_n = 3
    /\ s12_app_result.status = "KeyError"


\* ------------------------------------------------------------------------
\* the tags expand_query_tags appended to the target tags
AppendedTags ==
    SubSeq(ex_expanded.target_tags, Len(ex_parsed_json.target_tags) + 1,
           Len(ex_expanded.target_tags))

AppendedNames == {AppendedTags[i].name : i \in 1..Len(AppendedTags)}

\* the names among the target tags of the query as it arrived
PresentNames ==
    {ex_parsed_json.target_tags[i].name : i \in 1..Len(ex_parsed_json.target_tags)}

\* the vocabulary tags not already present
EligibleNames == DOMAIN tag_to_idx \ PresentNames

\* cosine similarity of a vocabulary tag to the mean of the query's phrase
\* and target-tag vectors
SimilarityToQuery(name) ==
    CosineSimilarity(MeanVector(ExpandQueryVectors(ex_parsed_json)),
                     rag_tag_vecs[tag_to_idx[name]])

Expanded == ex_pc \in {"expanded", "recommended"}

C22_WitnessExhausted ==
    /\ Expanded
    /\ ex_top_k = 5
    /\ ex_parsed_json.phrases # <<>> /\ ex_parsed_json.target_tags = <<>>
    /\ Len(AppendedTags) = 3

\* a query whose only target tag is not in the vocabulary is left as it was
C22_WitnessUnchanged ==
    /\ Expanded
    /\ ex_parsed_json.phrases = <<>>
    /\ Len(ex_parsed_json.target_tags) = 1
    /\ ex_parsed_json.target_tags[1].name = "unknown"
    /\ ex_expanded = ex_parsed_json

\* ------------------------------------------------------------------------
\* C28: tag expansion never appends a tag that is in the query's
\* avoid_tags: after expand_query_tags no tag is both a target tag and an
\* avoided tag unless the caller supplied it as both.
C28_ExpansionNeverAppendsAvoidedTag ==
    Expanded =>
        \A i \in 1..Len(ex_expanded.target_tags) :
            (\E j \in 1..Len(ex_expanded.avoid_tags) :
                ex_expanded.avoid_tags[j] = ex_expanded.target_tags[i].name)
            => ex_expanded.target_tags[i].name \in PresentNames

\* what holds: an appended tag is never one of the target tags supplied
C28_ExpansionNeverRepeatsTargetTag ==
    Expanded => AppendedNames \cap PresentNames = {}

\* target rpg, avoided indie: indie is appended with its similarity 0.6, and
\* recommend_vibe builds rpg + 0.6 * indie - indie
C28_WitnessAvoidedAppended ==
    /\ ex_pc = "recommended"
    /\ ex_parsed_json.phrases = <<>>
    /\ Len(ex_parsed_json.target_tags) = 1
    /\ ex_parsed_json.target_tags[1].name = "rpg"
    /\ ex_parsed_json.avoid_tags = <<"indie">>
    /\ ex_top_k = 1
    /\ AppendedTags = <<[name |-> "indie", has_weight |-> TRUE, weight |-> 600]>>
    /\ ex_result.status = "ok"
    /\ ex_result.query_vector = <<1000 + 360 - 600, 480 - 800>>


\* ------------------------------------------------------------------------
\* C24: run_online_pipeline starts the stages strictly in the order 10, 11,
\* 12, 13, 14, 15, starts a stage only after the previous stage exited with
\* status 0, and after the first non-zero exit starts no further stage and
\* returns 1.
C24_StagesInOrderUntilFirstFailure ==
    /\ rp_started = SubSeq(<<10, 11, 12, 13, 14, 15>>, 1, Len(rp_started))
    /\ Len(rp_exits) = Len(rp_started)
    /\ \A i \in 1..(Len(rp_exits) - 1) : rp_exits[i] = 0
    /\ (rp_exits # <<>> /\ rp_exits[Len(rp_exits)] # 0) =>
          (rp_pc = "returned" /\ rp_return = 1)

\* all six stages ran, each after a zero exit
C24_Witness ==
    /\ rp_pc = "returned"
    /\ rp_started = <<10, 11, 12, 13, 14, 15>>
    /\ rp_exits = <<0, 0, 0, 0, 0, 0>>

\* stage 12 exited with 1: nothing was started after it and main returned 1
C24_WitnessFailure ==
    /\ rp_pc = "returned"
    /\ rp_started = <<10, 11, 12>>
    /\ rp_exits = <<0, 0, 1>>
    /\ rp_return = 1

C23_SuccessOnlyAfterSixZeroExits ==
    rp_return = 0 =>
        /\ rp_exits = <<0, 0, 0, 0, 0, 0>>
        /\ rp_files[15] # "absent"

\* stage 10 aborted on an invalid intent, stage 11 built a query vector from
\* the parsed_intent.json of an earlier run
C23_WitnessStaleIntent ==
    /\ Len(rp_outcomes) >= 2
    /\ rp_outcomes[1] = "abort" /\ rp_outcomes[2] = "ok"
    /\ rp_files[10] = "stale" /\ rp_files[11] = "fresh"
    /\ 11 \in rp_stale_reads

\* every stage aborted and main returned 0 on the recommendations of an
\* earlier run
C23_WitnessStaleSuccess ==
    /\ rp_return = 0
    /\ \A i \in 1..6 : rp_outcomes[i] = "abort"
    /\ rp_files[15] = "stale"


\* ------------------------------------------------------------------------
\* step 10 has run on a query whose mode is valid
IntentChecked ==
    /\ it_pc \in {"parsed", "rejected", "vector"}
    /\ it_intent_json.mode \in {"similar", "vibe", "hybrid"}

\* the seed id passed validate_games
AcceptedSeed(game_id) ==
    /\ it_parsed.status = "ok"
    /\ \E i \in 1..Len(it_parsed.intent.games) : it_parsed.intent.games[i] = game_id

\* C26: validate_games accepts a seed game id if and only if
\* generate_similar_query_vector resolves that id to an item vector (it is a
\* catalog item id in appid2row), so a validated query never fails later
\* with 'no valid seed game'.
C26_ValidatorAndQueryBuilderAgreeOnSeeds ==
    /\ IntentChecked =>
          \A i \in 1..Len(it_intent_json.games) :
              AcceptedSeed(it_intent_json.games[i])
                 <=> it_intent_json.games[i] \in DOMAIN it_index_maps.appid2row
    /\ (it_pc = "vector" /\ it_parsed.intent.mode = "similar") => it_step11 = "ok"

\* what holds: the ids of an accepted query are row numbers of the catalog
C26_AcceptedSeedsAreRowNumbers ==
    IntentChecked =>
        \A i \in 1..Len(it_intent_json.games) :
            AcceptedSeed(it_intent_json.games[i]) =>
                it_intent_json.games[i] \in 0..(Cardinality(DOMAIN it_index_maps.appid2row) - 1)

\* catalog ids 10, 20, 30: the seed 10 of a similar query is rejected
C26_WitnessCatalogIdRejected ==
    /\ it_pc = "rejected"
    /\ DOMAIN it_index_maps.appid2row = {10, 20, 30}
    /\ it_intent_json = [mode |-> "similar", games |-> <<10>>, phrases |-> <<>>]
    /\ it_parsed.status = "ValueError: No valid game IDs found"

\* the seed 1 is a row number but no catalog id: accepted by step 10, and
\* step 11 raises for lack of a valid seed
C26_WitnessRowNumberAccepted ==
    /\ it_pc = "vector"
    /\ DOMAIN it_index_maps.appid2row = {10, 20, 30}
    /\ it_intent_json = [mode |-> "similar", games |-> <<1>>, phrases |-> <<>>]
    /\ it_parsed.status = "ok"
    /\ it_step11 = "ValueError: no valid seed game"

\* ------------------------------------------------------------------------
\* C30: the intent parser rejects a query for lack of valid seed games only
\* in the modes that use seed items (similar, hybrid): a vibe-mode query
\* with phrases and an empty games list is parsed successfully and reaches
\* query-vector construction.
C30_OnlySeedModesNeedSeeds ==
    /\ it_parsed.status = "ValueError: No valid game IDs found" =>
          it_intent_json.mode \in {"similar", "hybrid"}
    /\ (/\ it_pc \in {"parsed", "rejected", "vector"}
        /\ it_intent_json.mode = "vibe"
        /\ it_intent_json.phrases # <<>>
        /\ it_intent_json.games = <<>>) => (it_parsed.status = "ok" /\ it_written)

\* what holds: in every valid mode a query without an accepted game id is
\* rejected and parsed_intent.json is not written
C30_EveryModeNeedsAnAcceptedSeed ==
    (IntentChecked /\ ~ \E i \in 1..Len(it_intent_json.games) :
                           it_intent_json.games[i] \in DOMAIN it_index_maps.row2appid)
       => (it_pc = "rejected" /\ ~it_written
           /\ it_parsed.status = "ValueError: No valid game IDs found")

\* a vibe query with a phrase and no games was rejected
C30_WitnessVibeRejected ==
    /\ it_pc = "rejected"
    /\ it_intent_json = [mode |-> "vibe", games |-> <<>>, phrases |-> <<"cozy">>]
    /\ it_parsed.status = "ValueError: No valid game IDs found"
    /\ ~it_written


\* ------------------------------------------------------------------------
\* the item vector without count compensation: the weighted average with the
\* softmax weights as they are, then the steering
UncompensatedVector(i) ==
    Steer(AverageVector(SynthTags(i), tag_vecs, softmax_weights[i]),
          compute_beta_axis(tag_vecs, tag_beta), syn_eta)

\* the length of the weighted average of item i before its normalization,
\* with the softmax weights as they are
UncompensatedLength(i) ==
    Norm(AverageNotNormalized(SynthTags(i), tag_vecs, softmax_weights[i]))

\* largest componentwise distance of two vectors
Distance(u, v) == Max(Abs(u[1] - v[1]), Abs(u[2] - v[2]))

\* equal to the resolution of the fixed-point arithmetic: the rounding of
\* the weights moves the average by a few thousandths, and the normalization
\* divides that by the length of the average
SameVector(u, v, length) == Distance(u, v) * length <= 5 * Scale

\* C29: count compensation does not change the synthesizer's output: for
\* every item and every alpha >= 0 the synthesized item vector equals the
\* one obtained with alpha = 0 (to the resolution of the weights), because
\* the weighted average renormalizes the weights.
C29_CountCompensationLeavesVectors ==
    syn_pc = "done" =>
        \A i \in SynthRows :
            SynthTags(i) # <<>> =>
                SameVector(syn_game_vecs[i], UncompensatedVector(i), UncompensatedLength(i))

\* an item with two tags of different weight was synthesized with alpha > 0
C29_Witness ==
    /\ syn_pc = "done"
    /\ syn_alpha > 0
    /\ \E i \in SynthRows :
          /\ Len(SynthTags(i)) = 2
          /\ softmax_weights[i][1] # softmax_weights[i][2]
          /\ tag_vecs[SynthTags(i)[1]] # tag_vecs[SynthTags(i)[2]]
          /\ syn_game_vecs[i] # Zero
          /\ UncompensatedLength(i) * 2 > Scale
          /\ SameVector(syn_game_vecs[i], UncompensatedVector(i), UncompensatedLength(i))


\* ------------------------------------------------------------------------
\* Properties of the candidate lists of the retriever
\* ------------------------------------------------------------------------
\* the call returned a candidate list
Retrieved(program) ==
    rt_pc = "done" /\ rt_program = program /\ rt_result.status = "ok"

\* the catalog ids a seed title names
NamedAppids(seed) ==
    {games_df[r].appid : r \in {o \in Rows : Lower[games_df[o].game_title] = Lower[seed.title]}}

ReturnedAppids == {rt_result.candidates[i] : i \in 1..Len(rt_result.candidates)}

\* C27: the candidates returned by recommend_similar never contain a seed
\* item and those returned by recommend_hybrid never contain the base game;
\* each call returns at most top_k candidates, without duplicates.
C27_CandidatesExcludeSeedsWithinTopK ==
    /\ Retrieved("similar") =>
          \A i \in 1..Len(rt_query.games) :
              NamedAppids(rt_query.games[i]) \cap ReturnedAppids = {}
    /\ Retrieved("hybrid") =>
          NamedAppids(rt_query.games[1]) \cap ReturnedAppids = {}
    /\ rt_pc = "done" /\ rt_result.status = "ok" =>
          /\ Len(rt_result.candidates) <= rt_top_k
          /\ Cardinality(ReturnedAppids) = Len(rt_result.candidates)

\* recommend_hybrid searched the whole catalog and returned it without the
\* base game
C27_Witness ==
    /\ Retrieved("hybrid")
    /\ rt_top_k = 2
    /\ Len(rt_result.candidates) = 2
    /\ rt_query.target_tags # <<>>

\* recommend_similar with two seeds returned the one item that is left
C27_WitnessSimilar ==
    /\ Retrieved("similar")
    /\ Cardinality({Lower[rt_query.games[i].title] : i \in 1..Len(rt_query.games)}) = 2
    /\ rt_top_k = 1
    /\ Len(rt_result.candidates) = 1

\* a search beyond the size of the catalog returns nothing: KeyError
C27_WitnessKeyError ==
    /\ rt_pc = "done"
    /\ rt_program = "hybrid"
    /\ rt_top_k = 3
    /\ rt_result.status = "KeyError"

====
